---- MODULE Spec2Model ----
(***************************************************************************)
(* Spendie: a Telegram finance bot.  Text messages go through               *)
(* rephrase -> classify -> extract (parser.py) and are dispatched by        *)
(* handle_message (bot.py); payment screenshots go through                  *)
(* parse_upi_screenshot -> validate_upi_transaction ->                      *)
(* enhance_upi_description (upi_ocr.py) in handle_photo (bot.py); records   *)
(* are stored in the MongoDB collection "transactions" (db.py).             *)
(*                                                                         *)
(* Python strings are sequences of one-character strings, so that string   *)
(* composition, int() parsing and strftime are computed and not assumed.   *)
(* Python/JSON values are records [k, n, s, d]: k the kind, n the number,  *)
(* s the characters of a string, d the items of a dict.                    *)
(* Record constructors list their fields in the order TLC keeps them in,   *)
(* which is the order of the names' first use in this module.              *)
(***************************************************************************)
EXTENDS Integers, Sequences, FiniteSets, TLC

VARIABLES
    ledger,            \* db.py: the collection `transactions`, in insertion order
    event,             \* the inbound update last processed (and the Inference Service's answers to it)
    transaction_data,  \* handle_photo / upi_ocr.py: the record parse_upi_screenshot returned
    user_description,  \* handle_photo: the caption of the photo
    validation,        \* the outcome of validate_upi_transaction(transaction_data)
    enhanced,          \* the outcome of enhance_upi_description(transaction_data, user_description)
    result,            \* handle_message: the record process_user_message returned
    query_args,        \* handle_query: the arguments passed to query_transactions
    reply,             \* the reply sent to the user for the event
    added,             \* the documents passed to transactions.insert_one during the event
    today,             \* _enhance_query_dates: datetime.now(), as a proleptic Gregorian ordinal
    query_data,        \* _enhance_query_dates: its argument
    resolved,          \* _enhance_query_dates: what it returned
    thread,            \* bot.py webhook: the background threads, each with the locals of its handler
    ocr_text,          \* extract_upi_amount: its argument, the OCR transcript
    upi_amount,        \* extract_upi_amount: what it returned
    found,             \* query_transactions: the documents it returned
    balance            \* get_balance: the pair it returned

vars == <<ledger, event, transaction_data, user_description, validation, enhanced,
          result, query_args, reply, added, today, query_data, resolved, thread,
          ocr_text, upi_amount, found, balance>>

-----------------------------------------------------------------------------
(* Python values *)

V(k, n, s, d) == [k |-> k, n |-> n, s |-> s, d |-> d]

None == V("null", 0, <<>>, <<>>)

JInt(i) == V("int", i, <<>>, <<>>)

JBool(b) == V("bool", IF b THEN 1 ELSE 0, <<>>, <<>>)

\* a finite float, in tenths: JFloat(127) is 12.7
JFloat(t) == V("float", t, <<>>, <<>>)

\* json.loads reads Infinity, -Infinity and out-of-range literals such as 1e999 as float inf
JInf(sign) == V("inf", sign, <<>>, <<>>)

JStr(s) == V("str", 0, s, <<>>)

\* a JSON array of n items (the items themselves are never read)
JList(n) == V("list", n, <<>>, <<>>)

\* a dict: d is a function from its keys to values
JDict(d) == V("dict", 0, <<>>, d)

IsDict(x) == x.k = "dict"

\* `key in data`
HasKey(x, key) == key \in DOMAIN x.d

\* data.get(key, default)
GetOr(x, key, default) == IF HasKey(x, key) THEN x.d[key] ELSE default

\* data.get(key)
Get(x, key) == GetOr(x, key, None)

\* data[key] = value
SetKey(x, key, value) ==
    JDict([f \in DOMAIN x.d \cup {key} |-> IF f = key THEN value ELSE x.d[f]])

\* bool(x)
Truthy(x) ==
    CASE x.k = "null" -> FALSE
      [] x.k \in {"int", "bool", "float"} -> x.n # 0
      [] x.k = "inf" -> TRUE
      [] x.k = "str" -> Len(x.s) > 0
      [] x.k = "list" -> x.n > 0
      [] x.k = "dict" -> DOMAIN x.d # {}
      [] OTHER -> TRUE

-----------------------------------------------------------------------------
(* int() *)

Digits == <<"0", "1", "2", "3", "4", "5", "6", "7", "8", "9">>

IsDigit(c) == \E i \in 1..10 : Digits[i] = c

DigitValue(c) == (CHOOSE i \in 1..10 : Digits[i] = c) - 1

RECURSIVE Strip(_)
\* str.strip(), for the blank
Strip(s) ==
    IF s = <<>> THEN s
    ELSE IF Head(s) = " " THEN Strip(Tail(s))
    ELSE IF s[Len(s)] = " " THEN Strip(SubSeq(s, 1, Len(s) - 1))
    ELSE s

RECURSIVE DigitsValue(_)
DigitsValue(s) ==
    IF s = <<>> THEN 0
    ELSE 10 * DigitsValue(SubSeq(s, 1, Len(s) - 1)) + DigitValue(s[Len(s)])

AllDigits(s) == Len(s) > 0 /\ \A i \in 1..Len(s) : IsDigit(s[i])

Ok(n) == [n |-> n, exc |-> ""]

Raised(e) == [n |-> 0, exc |-> e]

\* int(str): blanks stripped, an optional sign, then decimal digits only
IntOfStr(s) ==
    LET t == Strip(s)
        signed == t # <<>> /\ Head(t) \in {"+", "-"}
        body == IF signed THEN Tail(t) ELSE t
    IN  IF AllDigits(body)
        THEN Ok(IF signed /\ Head(t) = "-" THEN -DigitsValue(body) ELSE DigitsValue(body))
        ELSE Raised("ValueError")

\* int(float) truncates toward zero
Trunc(t) == IF t >= 0 THEN t \div 10 ELSE -((-t) \div 10)

\* int(x): a number, or the exception raised
PyInt(x) ==
    CASE x.k \in {"int", "bool"} -> Ok(x.n)
      [] x.k = "float" -> Ok(Trunc(x.n))
      [] x.k = "inf" -> Raised("OverflowError")
      [] x.k = "str" -> IntOfStr(x.s)
      [] OTHER -> Raised("TypeError")

\* x <= 0: TRUE, FALSE, or "TypeError" for a value that is no number
LeZero(x) ==
    CASE x.k \in {"int", "bool", "float", "inf"} -> IF x.n <= 0 THEN "true" ELSE "false"
      [] OTHER -> "TypeError"

-----------------------------------------------------------------------------
(* str() and f-strings *)

RECURSIVE NatToStr(_)
NatToStr(n) == IF n < 10 THEN <<Digits[n + 1]>> ELSE NatToStr(n \div 10) \o <<Digits[(n % 10) + 1]>>

S_None == <<"N", "o", "n", "e">>

S_True == <<"T", "r", "u", "e">>

S_False == <<"F", "a", "l", "s", "e">>

\* str(x), as an f-string formats a field.  The records drawn below format only
\* strings, integers, booleans and None; any other kind is shown by its kind.
PyStr(x) ==
    CASE x.k = "str" -> x.s
      [] x.k = "int" -> IF x.n < 0 THEN <<"-">> \o NatToStr(-x.n) ELSE NatToStr(x.n)
      [] x.k = "bool" -> IF x.n = 1 THEN S_True ELSE S_False
      [] x.k = "null" -> S_None
      [] OTHER -> <<"<", x.k, ">">>

RECURSIVE Join(_, _)
\* sep.join(parts)
Join(sep, parts) ==
    IF parts = <<>> THEN <<>>
    ELSE IF Len(parts) = 1 THEN parts[1]
    ELSE parts[1] \o sep \o Join(sep, Tail(parts))

-----------------------------------------------------------------------------
(* String literals of the program *)

S_income == <<"i", "n", "c", "o", "m", "e">>

S_expense == <<"e", "x", "p", "e", "n", "s", "e">>

S_error == <<"e", "r", "r", "o", "r">>

S_unknown == <<"u", "n", "k", "n", "o", "w", "n">>

S_low == <<"l", "o", "w">>

S_high == <<"h", "i", "g", "h">>

S_both == <<"b", "o", "t", "h">>

S_miscellaneous == <<"m", "i", "s", "c", "e", "l", "l", "a", "n", "e", "o", "u", "s">>

S_paid_to == <<"p", "a", "i", "d", " ", "t", "o", " ">>

S_received_from == <<"r", "e", "c", "e", "i", "v", "e", "d", " ", "f", "r", "o", "m", " ">>

S_via == <<"v", "i", "a", " ">>

S_lparen == <<" ", "(">>

S_rparen == <<")">>

S_lbracket == <<" ", "[">>

S_rbracket == <<"]">>

S_comma == <<",", " ">>

S_today == <<"t", "o", "d", "a", "y">>

S_yesterday == <<"y", "e", "s", "t", "e", "r", "d", "a", "y">>

S_this_week == <<"t", "h", "i", "s", "_", "w", "e", "e", "k">>

S_last_week == <<"l", "a", "s", "t", "_", "w", "e", "e", "k">>

S_transaction == <<"t", "r", "a", "n", "s", "a", "c", "t", "i", "o", "n">>

S_query == <<"q", "u", "e", "r", "y">>

S_balance == <<"b", "a", "l", "a", "n", "c", "e">>

S_list == <<"l", "i", "s", "t">>

S_balance_inquiry == <<"B", "a", "l", "a", "n", "c", "e", " ", "i", "n", "q", "u", "i", "r", "y">>

-----------------------------------------------------------------------------
(* The Inference Service: what one call_groq call can do *)

\* requests.post failed, or the body held no "choices": call_groq raises
GroqRaises == [value |-> None, status |-> "raise", text |-> <<>>]

\* a completion that json.loads rejects (free text, an empty completion)
GroqGarbage == [value |-> None, status |-> "garbage", text |-> <<>>]

\* a completion that is the JSON text of `value`
GroqJson(value) == [value |-> value, status |-> "json", text |-> <<>>]

\* a free-text completion (rephrasing, classification), before call_groq's strip()
GroqText(text) == [value |-> None, status |-> "text", text |-> text]

\* the outcome of a call that returns a value or raises
Ret(v) == [exc |-> "", v |-> v]

Raise(e) == [exc |-> e, v |-> None]

-----------------------------------------------------------------------------
(* upi_ocr.py *)

S_could_not_parse_screenshot ==
    <<"C", "o", "u", "l", "d", " ", "n", "o", "t", " ", "p", "a", "r", "s", "e">> \o
    <<" ", "s", "c", "r", "e", "e", "n", "s", "h", "o", "t">>

\* the sentinel record the specification describes
SentinelRecord ==
    JDict([amount |-> JInt(0),
           type |-> JStr(S_expense),
           confidence |-> JStr(S_low),
           description |-> JStr(S_could_not_parse_screenshot),
           category |-> JStr(S_miscellaneous)])

\* a parse_upi_screenshot that returns the sentinel record on any exception
parse_upi_screenshot_sentinel(groq) ==
    IF groq.status = "json" THEN groq.value ELSE SentinelRecord

\* parse_upi_screenshot: json.loads(call_groq(...)), or None on any exception
parse_upi_screenshot(groq) == IF groq.status = "json" THEN groq.value ELSE None

RequiredFields == <<"type", "amount", "description">>

Verdict(ok, msg) == Ret([is_valid |-> ok, message |-> msg])

\* the first required field that is absent or falsy, 0 when there is none
FirstMissing(data) ==
    LET missing == {i \in 1..Len(RequiredFields) :
                        ~HasKey(data, RequiredFields[i]) \/ ~Truthy(data.d[RequiredFields[i]])}
    IN  IF missing = {} THEN 0 ELSE CHOOSE i \in missing : \A j \in missing : i <= j

\* the try block of validate_upi_transaction: only ValueError and TypeError are caught
ValidAmount(data) ==
    LET amount == PyInt(data.d["amount"])
    IN  IF amount.exc \in {"ValueError", "TypeError"} THEN Verdict(FALSE, "Invalid amount format")
        ELSE IF amount.exc # "" THEN Raise(amount.exc)
        ELSE IF amount.n <= 0 THEN Verdict(FALSE, "Invalid amount")
        ELSE Verdict(TRUE, "")

ValidType(data) == data.d["type"] \in {JStr(S_income), JStr(S_expense)}

\* a validator whose only required field is the amount
validate_amount_only(data) ==
    IF ~Truthy(data) THEN Verdict(FALSE, "Could not parse transaction data")
    ELSE IF data.k \in {"int", "bool", "float", "inf"} THEN Raise("TypeError")
    ELSE IF ~HasKey(data, "amount") THEN Verdict(FALSE, "Missing required field: amount")
    ELSE IF ValidAmount(data).exc # "" \/ ~ValidAmount(data).v.is_valid THEN ValidAmount(data)
    ELSE Verdict(TRUE, "Valid transaction")

\* validate_upi_transaction; `field not in transaction_data` raises for a number
validate_upi_transaction(data) ==
    IF ~Truthy(data) THEN Verdict(FALSE, "Could not parse transaction data")
    ELSE IF data.k \in {"int", "bool", "float", "inf"} THEN Raise("TypeError")
    ELSE IF FirstMissing(data) # 0
         THEN Verdict(FALSE, "Missing required field: " \o RequiredFields[FirstMissing(data)])
    ELSE IF ValidAmount(data).exc # "" \/ ~ValidAmount(data).v.is_valid THEN ValidAmount(data)
    ELSE IF ~ValidType(data) THEN Verdict(FALSE, "Invalid transaction type")
    ELSE IF GetOr(data, "confidence", JStr(S_low)) = JStr(S_low)
         THEN Verdict(TRUE, "Low confidence in parsing - please verify")
    ELSE Verdict(TRUE, "Valid transaction")

\* the directional clause as "to X" for an expense and "from X" otherwise
DirectionClause_short(data) ==
    IF data.d["type"] = JStr(S_expense)
    THEN <<"t", "o", " ">> \o PyStr(data.d["recipient_sender"])
    ELSE <<"f", "r", "o", "m", " ">> \o PyStr(data.d["recipient_sender"])

\* upi_context.append(f"paid to {...}") for an expense, f"received from {...}" otherwise
DirectionClause(data) ==
    IF data.d["type"] = JStr(S_expense)
    THEN S_paid_to \o PyStr(data.d["recipient_sender"])
    ELSE S_received_from \o PyStr(data.d["recipient_sender"])

AppClause(data) == S_via \o PyStr(data.d["app_name"])

\* the list upi_context of enhance_upi_description
upi_context(data) ==
    (IF Truthy(Get(data, "recipient_sender")) THEN <<DirectionClause(data)>> ELSE <<>>)
    \o (IF Truthy(Get(data, "app_name")) THEN <<AppClause(data)>> ELSE <<>>)

\* a head that puts the extracted description before the caption
DescriptionHead_base_first(data, caption) ==
    LET base_description == GetOr(data, "description", JStr(<<>>))
    IN  IF caption # <<>>
        THEN JStr(PyStr(base_description) \o S_lparen \o caption \o S_rparen)
        ELSE base_description

\* final_description before the bracketed context is appended
DescriptionHead(data, caption) ==
    LET base_description == GetOr(data, "description", JStr(<<>>))
    IN  IF caption # <<>>
        THEN JStr(caption \o S_lparen \o PyStr(base_description) \o S_rparen)
        ELSE base_description

\* enhance_upi_description: the description, or the exception raised (.get of a
\* value that is no dict; data['type'] of a record with a counterparty and no
\* type; += on a description that is no string)
enhance_upi_description(data, caption) ==
    IF ~IsDict(data) THEN Raise("AttributeError")
    ELSE IF Truthy(Get(data, "recipient_sender")) /\ ~HasKey(data, "type") THEN Raise("KeyError")
    ELSE IF upi_context(data) = <<>> THEN Ret(DescriptionHead(data, caption))
    ELSE IF DescriptionHead(data, caption).k # "str" THEN Raise("TypeError")
    ELSE Ret(JStr(DescriptionHead(data, caption).s
                  \o S_lbracket \o Join(S_comma, upi_context(data)) \o S_rbracket))

-----------------------------------------------------------------------------
(* Dates: datetime.now(), timedelta(days=n), weekday(), strftime('%Y-%m-%d') *)
(* and fromisoformat, on proleptic Gregorian ordinals (date.toordinal()).   *)

IsLeap(y) == y % 4 = 0 /\ (y % 100 # 0 \/ y % 400 = 0)

DaysInMonth(y, m) ==
    CASE m \in {1, 3, 5, 7, 8, 10, 12} -> 31
      [] m \in {4, 6, 9, 11} -> 30
      [] OTHER -> IF IsLeap(y) THEN 29 ELSE 28

RECURSIVE DaysBeforeMonth(_, _)
DaysBeforeMonth(y, m) == IF m = 1 THEN 0 ELSE DaysBeforeMonth(y, m - 1) + DaysInMonth(y, m - 1)

\* days before January 1st of year y
DaysBeforeYear(y) == (y - 1) * 365 + (y - 1) \div 4 - (y - 1) \div 100 + (y - 1) \div 400

\* date(y, m, d).toordinal()
ymd2ord(y, m, d) == DaysBeforeYear(y) + DaysBeforeMonth(y, m) + d

\* the year of ordinal n: 400-, 100-, 4- and 1-year cycles
YearOf(n) ==
    LET n0 == n - 1
        n400 == n0 \div 146097
        r400 == n0 % 146097
        n100 == r400 \div 36524
        r100 == r400 % 36524
        n4 == r100 \div 1461
        r4 == r100 % 1461
        n1 == r4 \div 365
        year == n400 * 400 + n100 * 100 + n4 * 4 + n1 + 1
    IN  IF n1 = 4 \/ n100 = 4 THEN year - 1 ELSE year

\* date.fromordinal(n) as [y, m, d]
ord2ymd(n) ==
    LET y == YearOf(n)
        inYear == n - DaysBeforeYear(y)
        m == CHOOSE k \in 1..12 :
                 DaysBeforeMonth(y, k) < inYear /\ inYear <= DaysBeforeMonth(y, k) + DaysInMonth(y, k)
    IN  [d |-> inYear - DaysBeforeMonth(y, m), y |-> y, m |-> m]

\* a weekday() whose day 0 is Sunday
weekday_sunday_first(n) == n % 7

\* datetime.weekday(): Monday is 0
weekday(n) == (n + 6) % 7

Pad(s, width) == [i \in 1..(width - Len(s)) |-> "0"] \o s

\* a strftime without zero padding, '%Y-%-m-%-d'
strftime_unpadded(n) ==
    LET t == ord2ymd(n)
    IN  NatToStr(t.y) \o <<"-">> \o NatToStr(t.m) \o <<"-">> \o NatToStr(t.d)

\* strftime('%Y-%m-%d')
strftime(n) ==
    LET t == ord2ymd(n)
    IN  Pad(NatToStr(t.y), 4) \o <<"-">> \o Pad(NatToStr(t.m), 2) \o <<"-">> \o Pad(NatToStr(t.d), 2)

\* whether s reads YYYY-MM-DD and names a day of the calendar
IsIsoDate(s) ==
    /\ Len(s) = 10
    /\ s[5] = "-" /\ s[8] = "-"
    /\ \A i \in {1, 2, 3, 4, 6, 7, 9, 10} : IsDigit(s[i])
    /\ LET y == DigitsValue(SubSeq(s, 1, 4))
           m == DigitsValue(SubSeq(s, 6, 7))
           d == DigitsValue(SubSeq(s, 9, 10))
       IN  y >= 1 /\ m \in 1..12 /\ d >= 1 /\ d <= DaysInMonth(y, m)

\* datetime.fromisoformat(s) of a YYYY-MM-DD string, as an ordinal
fromisoformat(s) ==
    ymd2ord(DigitsValue(SubSeq(s, 1, 4)), DigitsValue(SubSeq(s, 6, 7)), DigitsValue(SubSeq(s, 9, 10)))

-----------------------------------------------------------------------------
(* parser.py *)

UpperCase == <<"A", "B", "C", "D", "E", "F", "G", "H", "I", "J", "K", "L", "M",
               "N", "O", "P", "Q", "R", "S", "T", "U", "V", "W", "X", "Y", "Z">>

LowerCase == <<"a", "b", "c", "d", "e", "f", "g", "h", "i", "j", "k", "l", "m",
               "n", "o", "p", "q", "r", "s", "t", "u", "v", "w", "x", "y", "z">>

\* str.lower()
Lower(s) ==
    [i \in 1..Len(s) |->
        IF \E j \in 1..26 : UpperCase[j] = s[i]
        THEN LowerCase[CHOOSE j \in 1..26 : UpperCase[j] = s[i]]
        ELSE s[i]]

\* call_groq: the completion's content.strip(), or the exception re-raised
call_groq(groq) == IF groq.status = "raise" THEN Raise("Exception") ELSE Ret(JStr(Strip(groq.text)))

\* a rephrase that gives up with the empty string
rephrase_empty_on_failure(user_message, groq) ==
    IF call_groq(groq).exc # "" THEN <<>> ELSE Strip(call_groq(groq).v.s)

\* RephraseAgent.rephrase
rephrase(user_message, groq) ==
    IF call_groq(groq).exc # "" THEN user_message ELSE Strip(call_groq(groq).v.s)

\* a classifier that trims its answer and keeps its case
determine_message_type_case_sensitive(groq) ==
    IF call_groq(groq).exc # "" THEN S_unknown ELSE Strip(call_groq(groq).v.s)

\* ClassificationAgent._determine_message_type
determine_message_type(groq) ==
    IF call_groq(groq).exc # "" THEN S_unknown ELSE Strip(Lower(call_groq(groq).v.s))

S_could_not_parse_transaction ==
    <<"C", "o", "u", "l", "d", " ", "n", "o", "t", " ", "p", "a", "r", "s", "e", " ",
      "t", "r", "a", "n", "s", "a", "c", "t", "i", "o", "n", ":", " ">>

S_could_not_parse_query ==
    <<"C", "o", "u", "l", "d", " ", "n", "o", "t", " ", "p", "a", "r", "s", "e", " ",
      "q", "u", "e", "r", "y", ":", " ">>

\* whether json.loads(result) succeeds and parsed['message_type'] = ... can be assigned
ParsesToDict(groq) == groq.status = "json" /\ IsDict(groq.value)

\* an extractor that gives up with None, as parse_upi_screenshot does
extract_transaction_details_none(groq) ==
    IF ParsesToDict(groq)
    THEN SetKey(groq.value, "message_type", JStr(S_transaction))
    ELSE None

\* ClassificationAgent._extract_transaction_details (the text of the exception is not modelled)
extract_transaction_details(groq) ==
    IF ParsesToDict(groq)
    THEN SetKey(groq.value, "message_type", JStr(S_transaction))
    ELSE JDict([type |-> JStr(S_error),
                confidence |-> JStr(S_low),
                message |-> JStr(S_could_not_parse_transaction)])

\* a SetRange that keeps an end_date the Inference Service supplied
SetRange_keeping_end(data, start, end) ==
    SetKey(SetKey(data, "start_date", JStr(strftime(start))), "end_date",
           IF Truthy(Get(data, "end_date")) THEN Get(data, "end_date") ELSE JStr(strftime(end)))

\* query_data['start_date'] = start.strftime(...); query_data['end_date'] = end.strftime(...)
SetRange(data, start, end) ==
    SetKey(SetKey(data, "start_date", JStr(strftime(start))), "end_date", JStr(strftime(end)))

\* an _enhance_query_dates whose last_week ends on the Monday of the current week
enhance_query_dates_overlapping(data, now) ==
    LET start_date == Get(data, "start_date")
    IN  IF ~Truthy(start_date) THEN data
        ELSE IF start_date = JStr(S_today) THEN SetRange(data, now, now)
        ELSE IF start_date = JStr(S_yesterday) THEN SetRange(data, now - 1, now - 1)
        ELSE IF start_date = JStr(S_this_week) THEN SetRange(data, now - weekday(now), now)
        ELSE IF start_date = JStr(S_last_week)
             THEN SetRange(data, (now - weekday(now)) - 6, now - weekday(now))
        ELSE data

\* ClassificationAgent._enhance_query_dates, with datetime.now() given as `now`
enhance_query_dates(data, now) ==
    LET start_date == Get(data, "start_date")
    IN  IF ~Truthy(start_date) THEN data
        ELSE IF start_date = JStr(S_today) THEN SetRange(data, now, now)
        ELSE IF start_date = JStr(S_yesterday) THEN SetRange(data, now - 1, now - 1)
        ELSE IF start_date = JStr(S_this_week) THEN SetRange(data, now - weekday(now), now)
        ELSE IF start_date = JStr(S_last_week)
             THEN SetRange(data, (now - (weekday(now) + 1)) - 6, now - (weekday(now) + 1))
        ELSE data

\* ClassificationAgent._extract_query_details
extract_query_details(groq, now) ==
    IF ParsesToDict(groq)
    THEN enhance_query_dates(SetKey(groq.value, "message_type", JStr(S_query)), now)
    ELSE JDict([confidence |-> JStr(S_low),
                message |-> JStr(S_could_not_parse_query),
                intent |-> JStr(S_error)])

\* ClassificationAgent._extract_balance_query
extract_balance_query ==
    JDict([type |-> JStr(S_both),
           confidence |-> JStr(S_high),
           description |-> JStr(S_balance_inquiry),
           intent |-> JStr(S_balance),
           message_type |-> JStr(S_balance)])

\* ClassificationAgent.classify after _determine_message_type returned message_type;
\* the extraction call is made only for a transaction or a query
classify_as(message_type, rephrased_message, groq_details, now) ==
    IF message_type = S_transaction THEN extract_transaction_details(groq_details)
    ELSE IF message_type = S_query THEN extract_query_details(groq_details, now)
    ELSE IF message_type = S_balance THEN extract_balance_query
    ELSE JDict([type |-> JStr(S_unknown),
                confidence |-> JStr(S_low),
                message |-> JStr(rephrased_message)])

\* ClassificationAgent.classify
classify(rephrased_message, groq_type, groq_details, now) ==
    classify_as(determine_message_type(groq_type), rephrased_message, groq_details, now)

\* MessageParser.parse_message / process_user_message (processing_timestamp left out)
parse_message(user_message, groq_rephrase, groq_type, groq_details, now) ==
    LET rephrased_message == rephrase(user_message, groq_rephrase)
        classification_result == classify(rephrased_message, groq_type, groq_details, now)
    IN  SetKey(SetKey(classification_result, "original_message", JStr(user_message)),
               "rephrased_message", JStr(rephrased_message))

-----------------------------------------------------------------------------
(* db.py *)

UpiKeys == {"recipient_sender", "transaction_id", "app_name", "confidence"}

\* the keys add_transaction sets itself
DocKeys == {"user_id", "timestamp", "category", "month", "year", "day_of_week", "created_at",
            "type", "amount", "description", "upi_data", "source", "updated_at"}

\* the document add_transaction inserts (its timestamps left out)
add_transaction(user_id, data) ==
    [amount |-> Get(data, "amount"),
     type |-> Get(data, "type"),
     description |-> Get(data, "description"),
     category |-> GetOr(data, "category", JStr(S_miscellaneous)),
     user_id |-> user_id,
     upi_data |->
        IF \E key \in UpiKeys : HasKey(data, key)
        THEN JDict([confidence |-> Get(data, "confidence"),
                    recipient_sender |-> Get(data, "recipient_sender"),
                    transaction_id |-> Get(data, "transaction_id"),
                    app_name |-> Get(data, "app_name"),
                    is_upi |-> JBool(\/ Truthy(Get(data, "recipient_sender"))
                                     \/ Truthy(Get(data, "transaction_id"))
                                     \/ Truthy(Get(data, "app_name")))])
        ELSE None,
     source |-> IF Truthy(Get(data, "app_name")) THEN "upi_ocr" ELSE "manual",
     extra |-> JDict([key \in (DOMAIN data.d \ DocKeys) \ UpiKeys |-> data.d[key]])]

RECURSIVE SelectDocs(_, _)
\* the documents of `docs` that are not user_id's, in order
SelectDocs(docs, user_id) ==
    IF docs = <<>> THEN <<>>
    ELSE IF Head(docs).user_id = user_id THEN SelectDocs(Tail(docs), user_id)
    ELSE <<Head(docs)>> \o SelectDocs(Tail(docs), user_id)

\* a delete_many with an empty filter
delete_all_transactions_of_everyone(docs, user_id) == <<>>

\* delete_all_transactions: the collection after delete_many({"user_id": user_id})
delete_all_transactions(docs, user_id) == SelectDocs(docs, user_id)

-----------------------------------------------------------------------------
(* bot.py *)

NotRun == [exc |-> "not run", v |-> None]

\* whether f"{x:,}" formats: a number does, a string, None or a list raises
FormatsWithComma(x) == x.k \in {"int", "bool", "float", "inf"}

Outcome(data, checked, description, docs, text, args) ==
    [transaction_data |-> data,
     validation |-> checked,
     enhanced |-> description,
     query_args |-> args,
     reply |-> text,
     added |-> docs]

\* handle_photo from parse_upi_screenshot on: what it computes, inserts and replies
handle_photo(user_id, caption, groq) ==
    LET data == parse_upi_screenshot(groq)
        checked == validate_upi_transaction(data)
        description == enhance_upi_description(data, caption)
        final == SetKey(data, "description", description.v)
    IN  IF ~Truthy(data) THEN Outcome(data, NotRun, NotRun, <<>>, "Could not find transaction details", None)
        ELSE IF ~IsDict(data) THEN Outcome(data, NotRun, NotRun, <<>>, "Error processing screenshot", None)
        ELSE IF LeZero(GetOr(data, "amount", JInt(0))) = "true"
             THEN Outcome(data, NotRun, NotRun, <<>>, "Could not find transaction details", None)
        ELSE IF LeZero(GetOr(data, "amount", JInt(0))) = "TypeError"
             THEN Outcome(data, NotRun, NotRun, <<>>, "Error processing screenshot", None)
        ELSE IF checked.exc # "" THEN Outcome(data, checked, NotRun, <<>>, "Error processing screenshot", None)
        ELSE IF ~checked.v.is_valid THEN Outcome(data, checked, NotRun, <<>>, "Could not process transaction", None)
        ELSE IF description.exc # ""
             THEN Outcome(data, checked, description, <<>>, "Error processing screenshot", None)
        ELSE IF Truthy(Get(final, "app_name")) /\ Get(final, "app_name").k # "str"
             THEN Outcome(final, checked, description, <<add_transaction(user_id, final)>>,
                          "Error processing screenshot", None)
        ELSE Outcome(final, checked, description, <<add_transaction(user_id, final)>>,
                     "Transaction Added from Screenshot", None)

\* a handle_transaction that tests the presence of the amount only
handle_transaction_amount_only(user_id, parsed) ==
    IF Get(parsed, "type") = JStr(S_error)
    THEN Outcome(None, NotRun, NotRun, <<>>, "Error parsing transaction", None)
    ELSE IF ~HasKey(parsed, "amount")
         THEN Outcome(None, NotRun, NotRun, <<>>, "Incomplete transaction data", None)
    ELSE IF Get(parsed, "type").k # "str" \/ ~FormatsWithComma(parsed.d["amount"])
         THEN Outcome(None, NotRun, NotRun, <<add_transaction(user_id, parsed)>>,
                      "Error adding transaction", None)
    ELSE Outcome(None, NotRun, NotRun, <<add_transaction(user_id, parsed)>>, "Transaction Added", None)

\* handle_transaction
handle_transaction(user_id, parsed) ==
    IF Get(parsed, "type") = JStr(S_error)
    THEN Outcome(None, NotRun, NotRun, <<>>, "Error parsing transaction", None)
    ELSE IF \E key \in {"type", "amount", "description"} : ~HasKey(parsed, key)
         THEN Outcome(None, NotRun, NotRun, <<>>, "Incomplete transaction data", None)
    ELSE IF parsed.d["type"].k # "str" \/ ~FormatsWithComma(parsed.d["amount"])
         THEN Outcome(None, NotRun, NotRun, <<add_transaction(user_id, parsed)>>,
                      "Error adding transaction", None)
    ELSE Outcome(None, NotRun, NotRun, <<add_transaction(user_id, parsed)>>, "Transaction Added", None)

\* the arguments handle_query passes to query_transactions
QueryArgs(user_id, parsed) ==
    JDict([amount |-> Get(parsed, "amount_filter"),
           category |-> Get(parsed, "category"),
           start_date |-> Get(parsed, "start_date"),
           user_id |-> JInt(user_id),
           txn_type |-> GetOr(parsed, "type", JStr(S_both)),
           end_date |-> Get(parsed, "end_date"),
           keywords |-> Get(parsed, "keywords")])

\* handle_query up to the call of query_transactions (what it then reports is one reply here)
handle_query(user_id, parsed) ==
    IF Get(parsed, "intent") = JStr(S_error)
    THEN Outcome(None, NotRun, NotRun, <<>>, "Error parsing query", None)
    ELSE Outcome(None, NotRun, NotRun, <<>>, "Query answered", QueryArgs(user_id, parsed))

\* handle_message after process_user_message
dispatch(user_id, parsed) ==
    IF Get(parsed, "message_type") = JStr(S_transaction) THEN handle_transaction(user_id, parsed)
    ELSE IF Get(parsed, "message_type") = JStr(S_query) THEN handle_query(user_id, parsed)
    ELSE IF Get(parsed, "message_type") = JStr(S_balance)
         THEN Outcome(None, NotRun, NotRun, <<>>, "Your Balance Summary", None)
    ELSE Outcome(None, NotRun, NotRun, <<>>, "I didn't understand that", None)
-----------------------------------------------------------------------------
(* Bounds and inputs *)

\* the ledger holds at most MaxLedger documents
MaxLedger == 2

\* the first current date drawn: the ordinal of 2023-12-25, a Monday
FirstDay == 738879

\* how many consecutive current dates are drawn: through 2024-03-05, so across
\* a year end, month ends and 29 February
NumDays == 72

Days == FirstDay..(FirstDay + NumDays - 1)

Users == {1, 2}

S_groceries == <<"g", "r", "o", "c", "e", "r", "i", "e", "s">>

S_dad == <<"d", "a", "d">>

S_gpay == <<"g", "p", "a", "y">>

S_lunch_money == <<"l", "u", "n", "c", "h", " ", "m", "o", "n", "e", "y">>

S_transfer == <<"t", "r", "a", "n", "s", "f", "e", "r">>

S_500 == <<"5", "0", "0">>

S_neg5 == <<"-", "5">>

S_abc == <<"a", "b", "c">>

S_sp7sp == <<" ", "7", " ">>

S_12_5 == <<"1", "2", ".", "5">>

S_this_month == <<"t", "h", "i", "s", "_", "m", "o", "n", "t", "h">>

S_2024_01_15 == <<"2", "0", "2", "4", "-", "0", "1", "-", "1", "5">>

S_2024_01_31 == <<"2", "0", "2", "4", "-", "0", "1", "-", "3", "1">>

S_spent_50 == <<"s", "p", "e", "n", "t", " ", "5", "0">>

S_Spent_Rs50 == <<" ", "S", "p", "e", "n", "t", " ", "R", "s", "5", "0">>

S_Transaction_sp == <<"T", "r", "a", "n", "s", "a", "c", "t", "i", "o", "n", " ">>

S_hello == <<"h", "e", "l", "l", "o">>

\* a key the Inference Service left out of its JSON object
Absent == V("absent", 0, <<>>, <<>>)

\* the dict with the keys of `fields` whose value is not Absent
Obj(fields) == JDict([key \in {f \in DOMAIN fields : fields[f] # Absent} |-> fields[key]])

Captions == {<<>>, S_lunch_money}

TypeValues == {Absent, None, JStr(<<>>), JStr(S_income), JStr(S_expense), JStr(S_transfer)}

AmountValues ==
    {Absent, None, JInt(0), JInt(-5), JInt(500), JStr(S_500), JStr(S_neg5), JStr(S_abc),
     JStr(S_sp7sp), JStr(S_12_5), JFloat(5), JFloat(127), JFloat(-127), JBool(TRUE),
     JInf(1), JInf(-1), JList(1)}

DescriptionValues == {Absent, JStr(<<>>), JStr(S_groceries), JInt(7)}

CounterpartyValues == {Absent, None, JStr(S_dad)}

AppValues == {Absent, JStr(S_gpay)}

ConfidenceValues == {Absent, JStr(S_high), JStr(S_low)}

CategoryValues == {Absent, JStr(<<>>)}

\* the JSON objects the Inference Service may answer a screenshot with
UpiRecords ==
    {Obj([amount |-> a,
          type |-> t,
          confidence |-> c,
          description |-> d,
          category |-> g,
          recipient_sender |-> r,
          app_name |-> p]) :
        t \in TypeValues, a \in AmountValues, d \in DescriptionValues,
        r \in CounterpartyValues, p \in AppValues, c \in ConfidenceValues,
        g \in CategoryValues}

\* every answer to the screenshot prompt: a failure, no JSON, JSON that is no object, an object
UpiResponses ==
    {GroqRaises, GroqGarbage, GroqJson(None), GroqJson(JList(0)), GroqJson(JList(1)),
     GroqJson(JInt(5)), GroqJson(JStr(S_abc))}
    \cup {GroqJson(r) : r \in UpiRecords}

\* the OCR transcript: empty, or some text (it only fills the prompt)
Transcripts == {<<>>, S_abc}

StartDateValues ==
    {Absent, None, JStr(<<>>), JStr(S_today), JStr(S_yesterday), JStr(S_this_week),
     JStr(S_last_week), JStr(S_this_month), JStr(S_2024_01_15), JInt(7)}

EndDateValues == {Absent, None, JStr(S_today), JStr(S_this_month), JStr(S_2024_01_31)}

\* the JSON objects the Inference Service may answer a query with
QueryRecords ==
    {Obj([type |-> t, start_date |-> s, intent |-> JStr(S_list), end_date |-> e]) :
        t \in {Absent, JStr(S_expense)}, s \in StartDateValues, e \in EndDateValues}

\* the answers to a typed transaction the bot is run on
TransactionAnswers ==
    {GroqRaises, GroqGarbage, GroqJson(JList(1))}
    \cup {GroqJson(Obj([amount |-> a,
                        type |-> JStr(S_expense),
                        confidence |-> JStr(S_high),
                        description |-> d])) :
            a \in {JInt(50), JInt(0)}, d \in {JStr(S_groceries)}}
    \cup {GroqJson(Obj([amount |-> JInt(500),
                        type |-> JStr(S_income),
                        confidence |-> JStr(S_low),
                        description |-> Absent]))}

\* the answers to a typed query the bot is run on
QueryAnswers ==
    {GroqRaises}
    \cup {GroqJson(Obj([type |-> JStr(S_expense), start_date |-> s, intent |-> JStr(S_list), end_date |-> e])) :
            s \in {None, JStr(S_last_week), JStr(S_this_month), JStr(S_2024_01_15)},
            e \in {Absent, JStr(S_today)}}

\* the answers to a screenshot the bot is run on
ScreenshotAnswers ==
    {GroqRaises, GroqGarbage, GroqJson(JList(1))}
    \cup {GroqJson(Obj([amount |-> a,
                        type |-> JStr(S_income),
                        confidence |-> JStr(S_high),
                        description |-> JStr(S_groceries),
                        recipient_sender |-> JStr(S_dad),
                        app_name |-> JStr(S_gpay)])) :
            a \in {JInt(500), JInt(0), JStr(S_500), Absent}}

Messages == {S_spent_50}

RephraseAnswers == {GroqText(S_Spent_Rs50)}

TypeAnswers ==
    {GroqRaises, GroqText(S_transaction), GroqText(S_Transaction_sp), GroqText(S_query),
     GroqText(S_balance), GroqText(S_hello)}

\* the current date the bot is run on
BotDays == {FirstDay}

-----------------------------------------------------------------------------
(* State *)

Unset == V("unset", 0, <<>>, <<>>)

NoEvent == [text |-> <<>>, caption |-> <<>>, kind |-> "none", user |-> 0, calls |-> <<>>]

\* the bot after main(): an empty collection, no update processed
Init ==
    /\ ledger = <<>>
    /\ event = NoEvent
    /\ transaction_data = Unset
    /\ user_description = <<>>
    /\ validation = NotRun
    /\ enhanced = NotRun
    /\ result = Unset
    /\ query_args = None
    /\ reply = ""
    /\ added = <<>>
    /\ today = 0
    /\ query_data = Unset
    /\ resolved = Unset
    /\ thread = <<>>
    /\ ocr_text = <<>>
    /\ upi_amount = Unset
    /\ found = Unset
    /\ balance = Unset

\* the state after one inbound update: the collection with what was inserted,
\* and what the handler computed and replied
Handled(ev, parsed, now, o) ==
    /\ Len(ledger) + Len(o.added) <= MaxLedger
    /\ ledger' = ledger \o o.added
    /\ event' = ev
    /\ transaction_data' = o.transaction_data
    /\ user_description' = ev.caption
    /\ validation' = o.validation
    /\ enhanced' = o.enhanced
    /\ result' = parsed
    /\ query_args' = o.query_args
    /\ reply' = o.reply
    /\ added' = o.added
    /\ today' = now
    /\ UNCHANGED <<query_data, resolved, thread,
                   ocr_text, upi_amount, found, balance>>

\* which answers the extraction call can get, by the label of the classifier
DetailAnswers(groq_type) ==
    IF determine_message_type(groq_type) = S_transaction THEN TransactionAnswers
    ELSE IF determine_message_type(groq_type) = S_query THEN QueryAnswers
    ELSE {}

\* bot.py handle_message: one text message of user_id, with the answers the
\* Inference Service gives to the calls it makes
HandleMessageWith(user_id, text, groq_rephrase, groq_type, groq_details, now, calls) ==
    LET parsed == parse_message(text, groq_rephrase, groq_type, groq_details, now)
    IN  Handled([text |-> text, caption |-> <<>>, kind |-> "text", user |-> user_id, calls |-> calls],
                parsed,
                IF determine_message_type(groq_type) = S_query THEN now ELSE 0,
                dispatch(user_id, parsed))

HandleMessage(user_id) ==
    \E text \in Messages, groq_rephrase \in RephraseAnswers, groq_type \in TypeAnswers :
        IF DetailAnswers(groq_type) = {}
        THEN HandleMessageWith(user_id, text, groq_rephrase, groq_type, GroqRaises, 0,
                               <<groq_rephrase, groq_type>>)
        ELSE \E groq_details \in DetailAnswers(groq_type), now \in BotDays :
                HandleMessageWith(user_id, text, groq_rephrase, groq_type, groq_details, now,
                                  <<groq_rephrase, groq_type, groq_details>>)

\* bot.py handle_photo: one screenshot of user_id with its caption and OCR transcript
HandlePhoto(user_id) ==
    \E caption \in Captions, groq \in ScreenshotAnswers :
        LET o == handle_photo(user_id, caption, groq)
        IN  Handled([text |-> S_abc, caption |-> caption, kind |-> "photo", user |-> user_id,
                     calls |-> <<groq>>],
                    Unset, 0, o)

\* bot.py delete_all: the /delete_all command of user_id
DeleteAll(user_id) ==
    /\ ledger' = delete_all_transactions(ledger, user_id)
    /\ event' = [text |-> <<>>, caption |-> <<>>, kind |-> "delete_all", user |-> user_id, calls |-> <<>>]
    /\ reply' = "Deleted"
    /\ transaction_data' = Unset
    /\ user_description' = <<>>
    /\ validation' = NotRun
    /\ enhanced' = NotRun
    /\ result' = Unset
    /\ query_args' = None
    /\ added' = <<>>
    /\ today' = 0
    /\ UNCHANGED <<query_data, resolved, thread,
                   ocr_text, upi_amount, found, balance>>

Next == \E user_id \in Users : HandleMessage(user_id) \/ HandlePhoto(user_id) \/ DeleteAll(user_id)

Spec == Init /\ [][Next]_vars
-----------------------------------------------------------------------------
(* The screenshot functions of upi_ocr.py on every answer of the Inference *)
(* Service: handle_photo's three calls, each on what the first returned.   *)

\* a screenshot whose transcript and caption are read and whose prompt the
\* Inference Service has answered; nothing is computed yet
InitUpi ==
    /\ \E transcript \in Transcripts, caption \in Captions, groq \in UpiResponses :
        /\ event = [text |-> transcript, caption |-> caption, kind |-> "photo", user |-> 1,
                    calls |-> <<groq>>]
        /\ user_description = caption
    /\ ledger = <<>>
    /\ transaction_data = Unset
    /\ validation = NotRun
    /\ enhanced = NotRun
    /\ result = Unset
    /\ query_args = None
    /\ reply = ""
    /\ added = <<>>
    /\ today = 0
    /\ query_data = Unset
    /\ resolved = Unset
    /\ thread = <<>>
    /\ ocr_text = <<>>
    /\ upi_amount = Unset
    /\ found = Unset
    /\ balance = Unset

\* transaction_data = parse_upi_screenshot(extracted_text, user_description)
ParseScreenshot ==
    /\ transaction_data = Unset
    /\ transaction_data' = parse_upi_screenshot(event.calls[1])
    /\ UNCHANGED <<ledger, event, user_description, validation, enhanced, result, query_args,
                   reply, added, today, query_data, resolved, thread,
                   ocr_text, upi_amount, found, balance>>

\* validate_upi_transaction(transaction_data)
Validate ==
    /\ transaction_data # Unset
    /\ validation = NotRun
    /\ validation' = validate_upi_transaction(transaction_data)
    /\ UNCHANGED <<ledger, event, transaction_data, user_description, enhanced, result,
                   query_args, reply, added, today, query_data, resolved, thread,
                   ocr_text, upi_amount, found, balance>>

\* enhance_upi_description(transaction_data, user_description)
Enhance ==
    /\ validation # NotRun
    /\ enhanced = NotRun
    /\ enhanced' = enhance_upi_description(transaction_data, user_description)
    /\ UNCHANGED <<ledger, event, transaction_data, user_description, validation, result,
                   query_args, reply, added, today, query_data, resolved, thread,
                   ocr_text, upi_amount, found, balance>>

NextUpi == ParseScreenshot \/ Validate \/ Enhance

SpecUpi == InitUpi /\ [][NextUpi]_vars

-----------------------------------------------------------------------------
(* _enhance_query_dates on every query record and every current date *)

\* _extract_query_details has parsed the answer and set message_type
InitResolver ==
    /\ today \in Days
    /\ query_data \in {SetKey(r, "message_type", JStr(S_query)) : r \in QueryRecords}
    /\ resolved = Unset
    /\ thread = <<>>
    /\ ocr_text = <<>>
    /\ upi_amount = Unset
    /\ found = Unset
    /\ balance = Unset
    /\ ledger = <<>>
    /\ event = NoEvent
    /\ transaction_data = Unset
    /\ user_description = <<>>
    /\ validation = NotRun
    /\ enhanced = NotRun
    /\ result = Unset
    /\ query_args = None
    /\ reply = ""
    /\ added = <<>>

\* parsed = self._enhance_query_dates(parsed)
Resolve ==
    /\ resolved = Unset
    /\ resolved' = enhance_query_dates(query_data, today)
    /\ UNCHANGED <<ledger, event, transaction_data, user_description, validation, enhanced,
                   result, query_args, reply, added, today, query_data, thread,
                   ocr_text, upi_amount, found, balance>>

NextResolver == Resolve

SpecResolver == InitResolver /\ [][NextResolver]_vars
-----------------------------------------------------------------------------
(* Properties of upi_ocr.py, under SpecUpi *)

\* the answer of the Inference Service to the screenshot prompt
Answer == event.calls[1]

Parsed == event.kind = "photo" /\ transaction_data # Unset

Validated == Parsed /\ validation # NotRun

Enhanced == Validated /\ enhanced # NotRun

\* whether x is an integer that is not negative
IsNonNegativeInteger(x) == x.k = "int" /\ x.n >= 0

AmountPositive(data) ==
    /\ IsDict(data)
    /\ HasKey(data, "amount")
    /\ PyInt(data.d["amount"]).exc = ""
    /\ PyInt(data.d["amount"]).n > 0

\* C2, as the specification states it: validate_upi_transaction returns valid for
\* every record whose amount parses as an integer greater than 0, whatever its
\* type, description, category and confidence.
C2_ValidForAnyPositiveAmount ==
    Validated /\ AmountPositive(transaction_data) =>
        validation.exc = "" /\ validation.v.is_valid

\* C2, amended: for a record whose amount parses as an integer greater than 0,
\* validate_upi_transaction returns valid exactly when type and description are
\* present and not empty and type is income or expense; category and confidence
\* do not matter.
C2_ValidIffTypeAndDescription ==
    Validated /\ AmountPositive(transaction_data) =>
        /\ validation.exc = ""
        /\ validation.v.is_valid <=>
            /\ Truthy(Get(transaction_data, "description"))
            /\ Get(transaction_data, "type") \in {JStr(S_income), JStr(S_expense)}

\* a record with a positive amount and no type has been validated, as invalid
C2_Witness ==
    /\ Validated
    /\ AmountPositive(transaction_data)
    /\ ~HasKey(transaction_data, "type")
    /\ Truthy(Get(transaction_data, "description"))
    /\ validation.exc = ""
    /\ ~validation.v.is_valid

\* whether the record is null, or its amount is absent, does not parse as an
\* integer, or parses as an integer that is 0 or negative
NoPositiveAmount(data) ==
    \/ data = None
    \/ /\ IsDict(data)
       /\ \/ ~HasKey(data, "amount")
          \/ PyInt(data.d["amount"]).exc # ""
          \/ PyInt(data.d["amount"]).n <= 0

\* C3: validate_upi_transaction returns invalid for every record whose amount is
\* 0 or negative, absent or not parseable as an integer, and for a null record,
\* regardless of all other fields.
C3_InvalidWithoutPositiveAmount ==
    Validated /\ NoPositiveAmount(transaction_data) =>
        validation.exc = "" /\ ~validation.v.is_valid

\* a record whose amount is infinite has been validated: OverflowError was raised
C3_Witness ==
    /\ Validated
    /\ IsDict(transaction_data)
    /\ Get(transaction_data, "amount") = JInf(1)
    /\ validation.exc = "OverflowError"
-----------------------------------------------------------------------------
(* Properties of bot.py, under Spec *)

\* whether x is a number that is 0 or negative
NotPositive(x) == x.k \in {"int", "bool", "float", "inf"} /\ x.n <= 0

\* C4: after any sequence of text messages and screenshots, the ledger holds no
\* record whose amount is 0, negative or absent, whether handle_transaction or
\* handle_photo inserted it.
C4_LedgerAmountsPositive ==
    \A i \in 1..Len(ledger) : ledger[i].amount # None /\ ~NotPositive(ledger[i].amount)

\* a text message whose extracted amount is 0 has been handled: the record was inserted
C4_Witness ==
    /\ event.kind = "text"
    /\ Len(added) = 1
    /\ added[1].amount = JInt(0)
    /\ added[1].source = "manual"
    /\ ledger # <<>>

\* whether x is a string that reads YYYY-MM-DD
IsoDateValue(x) == x.k = "str" /\ IsIsoDate(x.s)

\* C5: whenever the start_date or end_date that handle_query passes to
\* query_transactions is set, both are absolute YYYY-MM-DD dates; no relative
\* or other non-ISO token reaches query_transactions.
C5_QueryDatesResolved ==
    event.kind = "text" /\ query_args # None =>
        (Truthy(query_args.d["start_date"]) \/ Truthy(query_args.d["end_date"]) =>
            IsoDateValue(query_args.d["start_date"]) /\ IsoDateValue(query_args.d["end_date"]))

\* a query whose start_date is the token this_month has been handled: the token
\* is what query_transactions was called with
C5_Witness ==
    /\ event.kind = "text"
    /\ query_args # None
    /\ query_args.d["start_date"] = JStr(S_this_month)
    /\ reply = "Query answered"
-----------------------------------------------------------------------------
(* Properties of _enhance_query_dates, under SpecResolver *)

Resolved == query_data # Unset /\ resolved # Unset

\* the start_date the Inference Service supplied
Token == Get(query_data, "start_date")

\* whether both bounds of a query record read YYYY-MM-DD
RangeIsIso(data) ==
    /\ IsoDateValue(Get(data, "start_date"))
    /\ IsoDateValue(Get(data, "end_date"))

StartOf(data) == fromisoformat(data.d["start_date"].s)

EndOf(data) == fromisoformat(data.d["end_date"].s)

\* the Monday of the week of day n: ordinal 1, 0001-01-01, is a Monday
MondayOf(n) == CHOOSE m \in (n - 6)..n : (m - 1) % 7 = 0

\* the same query asking for this_week
ThisWeekOf(data) == SetKey(data, "start_date", JStr(S_this_week))

\* C6: for every current date D, last_week resolves to end = (Monday of D's week)
\* minus 1 day and start = end minus 6 days: the Monday through the Sunday before
\* the week of D, which never overlaps the this_week range.
C6_LastWeek ==
    Resolved /\ Token = JStr(S_last_week) =>
        /\ RangeIsIso(resolved)
        /\ EndOf(resolved) = MondayOf(today) - 1
        /\ StartOf(resolved) = EndOf(resolved) - 6
        /\ StartOf(resolved) = MondayOf(StartOf(resolved))
        /\ EndOf(resolved) < StartOf(enhance_query_dates(ThisWeekOf(query_data), today))

\* last_week has been resolved on a day of the first week of 2024: the range is
\* 2023-12-25 through 2023-12-31
C6_Witness ==
    /\ Resolved
    /\ Token = JStr(S_last_week)
    /\ today = ymd2ord(2024, 1, 3)
    /\ StartOf(resolved) = ymd2ord(2023, 12, 25)
    /\ EndOf(resolved) = ymd2ord(2023, 12, 31)

\* C7: for every current date D, this_week resolves to start = D minus weekday(D)
\* days with Monday as weekday 0, a Monday not after D and at most 6 days before
\* it, and end = D.
C7_ThisWeek ==
    Resolved /\ Token = JStr(S_this_week) =>
        /\ RangeIsIso(resolved)
        /\ StartOf(resolved) = today - weekday(today)
        /\ StartOf(resolved) = MondayOf(today)
        /\ StartOf(resolved) <= today
        /\ today - StartOf(resolved) <= 6
        /\ EndOf(resolved) = today

\* this_week has been resolved on Sunday 2024-03-03: it starts on Monday
\* 2024-02-26, across 29 February
C7_Witness ==
    /\ Resolved
    /\ Token = JStr(S_this_week)
    /\ today = ymd2ord(2024, 3, 3)
    /\ StartOf(resolved) = ymd2ord(2024, 2, 26)
    /\ EndOf(resolved) = today

\* C8: for every current date D, today resolves to start = end = D and yesterday
\* to start = end = D minus 1 day, across month and year boundaries too.
C8_TodayYesterday ==
    Resolved =>
        /\ Token = JStr(S_today) =>
            /\ RangeIsIso(resolved)
            /\ StartOf(resolved) = today
            /\ EndOf(resolved) = today
        /\ Token = JStr(S_yesterday) =>
            /\ RangeIsIso(resolved)
            /\ StartOf(resolved) = today - 1
            /\ EndOf(resolved) = today - 1

\* yesterday has been resolved on 2024-01-01: both bounds are 2023-12-31
C8_Witness ==
    /\ Resolved
    /\ Token = JStr(S_yesterday)
    /\ today = ymd2ord(2024, 1, 1)
    /\ resolved.d["start_date"] = JStr(<<"2", "0", "2", "3", "-", "1", "2", "-", "3", "1">>)
    /\ resolved.d["end_date"] = resolved.d["start_date"]

RelativeTokens == {JStr(S_today), JStr(S_yesterday), JStr(S_this_week), JStr(S_last_week)}

\* the query records with the same start_date as query_data
SameToken ==
    {SetKey(r, "message_type", JStr(S_query)) :
        r \in {q \in QueryRecords : Get(q, "start_date") = Token}}

\* C9: for a fixed current date, resolving the same relative token again yields
\* the same range, whatever end_date or other field the Inference Service
\* supplied with it, and resolving the resolver's own output changes nothing.
C9_PureAndIdempotent ==
    Resolved =>
        /\ enhance_query_dates(resolved, today) = resolved
        /\ Token \in RelativeTokens =>
            \A other \in SameToken :
                /\ Get(enhance_query_dates(other, today), "start_date") = Get(resolved, "start_date")
                /\ Get(enhance_query_dates(other, today), "end_date") = Get(resolved, "end_date")

\* last_week supplied with the end_date 2024-01-31 has been resolved: the
\* end_date supplied is not in the result
C9_Witness ==
    /\ Resolved
    /\ Token = JStr(S_last_week)
    /\ Get(query_data, "end_date") = JStr(S_2024_01_31)
    /\ RangeIsIso(resolved)
    /\ Get(resolved, "end_date") # JStr(S_2024_01_31)
-----------------------------------------------------------------------------
(* Properties of enhance_upi_description, under SpecUpi *)

RECURSIVE ContainsFrom(_, _, _)
\* whether t occurs in s at position i or later
ContainsFrom(s, t, i) ==
    IF i + Len(t) - 1 > Len(s) THEN FALSE
    ELSE IF SubSeq(s, i, i + Len(t) - 1) = t THEN TRUE
    ELSE ContainsFrom(s, t, i + 1)

\* t in s
Contains(s, t) == ContainsFrom(s, t, 1)

\* the record of the example: groceries, received from dad, no app
IsExample(data) ==
    /\ IsDict(data)
    /\ Get(data, "description") = JStr(S_groceries)
    /\ Get(data, "recipient_sender") = JStr(S_dad)
    /\ Get(data, "type") = JStr(S_income)
    /\ ~HasKey(data, "app_name")

S_groceries_from_dad ==
    <<"g", "r", "o", "c", "e", "r", "i", "e", "s", " ", "[", "f", "r", "o", "m", " ",
      "d", "a", "d", "]">>

S_lunch_money_groceries_from_dad ==
    <<"l", "u", "n", "c", "h", " ", "m", "o", "n", "e", "y", " ", "(", "g", "r", "o",
      "c", "e", "r", "i", "e", "s", ")", " ", "[", "f", "r", "o", "m", " ", "d", "a",
      "d", "]">>

S_groceries_received_from_dad ==
    <<"g", "r", "o", "c", "e", "r", "i", "e", "s", " ", "[", "r", "e", "c", "e", "i",
      "v", "e", "d", " ", "f", "r", "o", "m", " ", "d", "a", "d", "]">>

S_lunch_money_groceries_received_from_dad ==
    <<"l", "u", "n", "c", "h", " ", "m", "o", "n", "e", "y", " ", "(", "g", "r", "o",
      "c", "e", "r", "i", "e", "s", ")", " ", "[", "r", "e", "c", "e", "i", "v", "e",
      "d", " ", "f", "r", "o", "m", " ", "d", "a", "d", "]">>

\* C10, as the specification states it: the clause is "to X" for an expense and
\* "from X" for an income, so the example record gives "groceries [from dad]"
\* with an empty caption and "lunch money (groceries) [from dad]" with the
\* caption "lunch money".
C10_ToFrom ==
    Enhanced /\ IsExample(transaction_data) =>
        /\ enhanced.exc = ""
        /\ enhanced.v =
            JStr(IF user_description = <<>>
                 THEN S_groceries_from_dad
                 ELSE S_lunch_money_groceries_from_dad)

\* C10, amended: with a counterparty X the description holds "paid to X" when
\* type is expense and "received from X" for any other type, and "via APP" when
\* an app name is present; the example record gives "groceries [received from
\* dad]" with an empty caption and "lunch money (groceries) [received from dad]"
\* with the caption "lunch money".
C10_PaidToReceivedFrom ==
    Enhanced /\ IsDict(transaction_data) /\ enhanced.exc = "" =>
        /\ Truthy(Get(transaction_data, "recipient_sender")) =>
            Contains(enhanced.v.s,
                     (IF Get(transaction_data, "type") = JStr(S_expense)
                      THEN <<"[", "p", "a", "i", "d", " ", "t", "o", " ">>
                      ELSE <<"[", "r", "e", "c", "e", "i", "v", "e", "d", " ", "f", "r", "o", "m", " ">>)
                     \o PyStr(Get(transaction_data, "recipient_sender")))
        /\ Truthy(Get(transaction_data, "app_name")) =>
            Contains(enhanced.v.s,
                     <<"v", "i", "a", " ">> \o PyStr(Get(transaction_data, "app_name")) \o <<"]">>)
        /\ IsExample(transaction_data) =>
            enhanced.v =
                JStr(IF user_description = <<>>
                     THEN S_groceries_received_from_dad
                     ELSE S_lunch_money_groceries_received_from_dad)

\* the example record has been enhanced with the caption "lunch money"
C10_Witness ==
    /\ Enhanced
    /\ IsExample(transaction_data)
    /\ user_description = S_lunch_money
    /\ enhanced.exc = ""
    /\ enhanced.v = JStr(S_lunch_money_groceries_received_from_dad)
-----------------------------------------------------------------------------
(* C11: the shape of the enhanced description *)

\* the extracted description of the record, the empty string when it has none
C11_Base == GetOr(transaction_data, "description", JStr(<<>>))

\* "{caption} ({base})" under a non-empty caption, "{base}" otherwise
C11_Head ==
    IF user_description # <<>>
    THEN user_description \o <<" ", "(">> \o C11_Base.s \o <<")">>
    ELSE C11_Base.s

\* " [c1, c2, ...]" over the context clauses in their order, empty without clauses
C11_Tail ==
    IF upi_context(transaction_data) = <<>> THEN <<>>
    ELSE <<" ", "[">> \o Join(<<",", " ">>, upi_context(transaction_data)) \o <<"]">>

-----------------------------------------------------------------------------
(* bot.py webhook: one background thread per inbound update. Each thread runs *)
(* its handler step by step, one step per call of the handler that reaches    *)
(* the Inference Service or the collection; the steps of different threads    *)
(* interleave. The Inference Service answers each call when it is made.       *)

\* one call of call_groq: the stage that made it and the answer it got
Call(stage, groq) == [groq |-> groq, stage |-> stage]

\* an inbound update, as far as the handlers read it
Update(kind, user_id, text, caption, now) ==
    [text |-> text, caption |-> caption, now |-> now, kind |-> kind, user |-> user_id]

\* the locals of a handler that has not run yet
NewThread(update) ==
    [transaction_data |-> Unset,
     validation |-> NotRun,
     enhanced |-> NotRun,
     result |-> Unset,
     reply |-> "",
     added |-> <<>>,
     message_type |-> <<>>,
     rephrased_message |-> <<>>,
     calls |-> <<>>,
     update |-> update,
     pc |-> IF update.kind = "text" THEN "rephrase" ELSE "parse_upi_screenshot"]

\* an insert that writes back the collection as the thread first saw it
insert_one_overwriting(docs, doc) == <<doc>>

\* transactions.insert_one(transaction_data)
insert_one(docs, doc) == Append(docs, doc)

\* the variables no thread writes
ThreadFrame ==
    UNCHANGED <<event, transaction_data, user_description, validation, enhanced, result,
                query_args, reply, added, today, query_data, resolved,
                ocr_text, upi_amount, found, balance>>

\* a rephrase stage that repeats its call once after a failure
Rephrase_retrying(t, answers) ==
    /\ thread[t].pc = "rephrase"
    /\ \E groq \in answers :
        thread' = [thread EXCEPT ![t] =
                     [thread[t] EXCEPT !.pc = IF groq.status = "raise" /\ thread[t].calls = <<>>
                                              THEN "rephrase" ELSE "classify",
                                       !.calls = Append(thread[t].calls, Call("rephrase", groq)),
                                       !.rephrased_message = rephrase(thread[t].update.text, groq)]]
    /\ UNCHANGED ledger
    /\ ThreadFrame

\* parse_message: rephrased_message = self.rephrase_agent.rephrase(user_message)
Rephrase(t, answers) ==
    /\ thread[t].pc = "rephrase"
    /\ \E groq \in answers :
        thread' = [thread EXCEPT ![t] =
                     [thread[t] EXCEPT !.pc = "classify",
                                       !.calls = Append(thread[t].calls, Call("rephrase", groq)),
                                       !.rephrased_message = rephrase(thread[t].update.text, groq)]]
    /\ UNCHANGED ledger
    /\ ThreadFrame

\* a parse_message that sets original_message only, as its except branch does
Returned_without_rephrased(t, classification_result) ==
    SetKey(classification_result, "original_message", JStr(thread[t].update.text))

\* what parse_message returns for the classification result
Returned(t, classification_result) ==
    SetKey(SetKey(classification_result, "original_message", JStr(thread[t].update.text)),
           "rephrased_message", JStr(thread[t].rephrased_message))

\* classify: message_type = self._determine_message_type(rephrased_message); a
\* balance or unknown message is finished without another call
Classify(t, answers) ==
    /\ thread[t].pc = "classify"
    /\ \E groq \in answers :
        LET message_type == determine_message_type(groq)
        IN  thread' = [thread EXCEPT ![t] =
                IF message_type \in {S_transaction, S_query}
                THEN [thread[t] EXCEPT !.pc = "extract",
                                       !.calls = Append(thread[t].calls, Call("classify", groq)),
                                       !.message_type = message_type]
                ELSE [thread[t] EXCEPT !.pc = "dispatch",
                                       !.calls = Append(thread[t].calls, Call("classify", groq)),
                                       !.message_type = message_type,
                                       !.result = Returned(t, classify_as(message_type,
                                                      thread[t].rephrased_message, GroqRaises,
                                                      thread[t].update.now))]]
    /\ UNCHANGED ledger
    /\ ThreadFrame

\* classify: _extract_transaction_details or _extract_query_details, then the
\* return of parse_message
Extract(t, transaction_answers, query_answers) ==
    /\ thread[t].pc = "extract"
    /\ \E groq \in (IF thread[t].message_type = S_transaction
                    THEN transaction_answers ELSE query_answers) :
        thread' = [thread EXCEPT ![t] =
                     [thread[t] EXCEPT !.pc = "dispatch",
                                       !.calls = Append(thread[t].calls, Call("extract", groq)),
                                       !.result = Returned(t, classify_as(thread[t].message_type,
                                                      thread[t].rephrased_message, groq,
                                                      thread[t].update.now))]]
    /\ UNCHANGED ledger
    /\ ThreadFrame

\* handle_message after process_user_message returned: the handler of the
\* message type, with its insert and its reply
Dispatch(t) ==
    /\ thread[t].pc = "dispatch"
    /\ LET o == dispatch(thread[t].update.user, thread[t].result)
       IN  /\ ledger' = IF o.added = <<>> THEN ledger ELSE insert_one(ledger, o.added[1])
           /\ thread' = [thread EXCEPT ![t] =
                           [thread[t] EXCEPT !.pc = "done",
                                             !.added = o.added,
                                             !.reply = o.reply]]
    /\ ThreadFrame

\* handle_photo: transaction_data = parse_upi_screenshot(...) and the test
\* `not transaction_data or transaction_data.get('amount', 0) <= 0`
ParseShot(t, answers) ==
    /\ thread[t].pc = "parse_upi_screenshot"
    /\ \E groq \in answers :
        LET data == parse_upi_screenshot(groq)
            text == IF ~Truthy(data) THEN "Could not find transaction details"
                    ELSE IF ~IsDict(data) THEN "Error processing screenshot"
                    ELSE IF LeZero(GetOr(data, "amount", JInt(0))) = "true"
                         THEN "Could not find transaction details"
                    ELSE IF LeZero(GetOr(data, "amount", JInt(0))) = "TypeError"
                         THEN "Error processing screenshot"
                    ELSE ""
        IN  thread' = [thread EXCEPT ![t] =
                         [thread[t] EXCEPT !.pc = IF text = "" THEN "validate_upi_transaction" ELSE "done",
                                           !.calls = Append(thread[t].calls, Call("parse_upi_screenshot", groq)),
                                           !.transaction_data = data,
                                           !.reply = text]]
    /\ UNCHANGED ledger
    /\ ThreadFrame

\* a handle_photo that goes on to the enhancer whatever the verdict
ValidateShot_ignoring_verdict(t) ==
    /\ thread[t].pc = "validate_upi_transaction"
    /\ thread' = [thread EXCEPT ![t] =
                    [thread[t] EXCEPT !.pc = "enhance_upi_description",
                                      !.validation = validate_upi_transaction(thread[t].transaction_data)]]
    /\ UNCHANGED ledger
    /\ ThreadFrame

\* handle_photo: is_valid, validation_message = validate_upi_transaction(transaction_data)
ValidateShot(t) ==
    /\ thread[t].pc = "validate_upi_transaction"
    /\ LET checked == validate_upi_transaction(thread[t].transaction_data)
           text == IF checked.exc # "" THEN "Error processing screenshot"
                   ELSE IF ~checked.v.is_valid THEN "Could not process transaction"
                   ELSE ""
       IN  thread' = [thread EXCEPT ![t] =
                        [thread[t] EXCEPT !.pc = IF text = "" THEN "enhance_upi_description" ELSE "done",
                                          !.validation = checked,
                                          !.reply = text]]
    /\ UNCHANGED ledger
    /\ ThreadFrame

\* handle_photo: enhanced_description = enhance_upi_description(...);
\* transaction_data['description'] = enhanced_description
EnhanceShot(t) ==
    /\ thread[t].pc = "enhance_upi_description"
    /\ LET description == enhance_upi_description(thread[t].transaction_data,
                                                  thread[t].update.caption)
       IN  thread' = [thread EXCEPT ![t] =
                        IF description.exc # ""
                        THEN [thread[t] EXCEPT !.pc = "done",
                                               !.enhanced = description,
                                               !.reply = "Error processing screenshot"]
                        ELSE [thread[t] EXCEPT !.pc = "add_transaction",
                                               !.enhanced = description,
                                               !.transaction_data =
                                                   SetKey(thread[t].transaction_data,
                                                          "description", description.v)]]
    /\ UNCHANGED ledger
    /\ ThreadFrame

\* handle_photo: add_transaction(user_id, transaction_data) and the success message
PersistShot(t) ==
    /\ thread[t].pc = "add_transaction"
    /\ LET doc == add_transaction(thread[t].update.user, thread[t].transaction_data)
           app_name == Get(thread[t].transaction_data, "app_name")
       IN  /\ ledger' = insert_one(ledger, doc)
           /\ thread' = [thread EXCEPT ![t] =
                           [thread[t] EXCEPT !.pc = "done",
                                             !.added = <<doc>>,
                                             !.reply = IF Truthy(app_name) /\ app_name.k # "str"
                                                       THEN "Error processing screenshot"
                                                       ELSE "Transaction Added from Screenshot"]]
    /\ ThreadFrame

\* the state of the bot with the threads of `updates` started and nothing run
InitThreads(updates) ==
    /\ thread = [t \in DOMAIN updates |-> NewThread(updates[t])]
    /\ ledger = <<>>
    /\ event = NoEvent
    /\ transaction_data = Unset
    /\ user_description = <<>>
    /\ validation = NotRun
    /\ enhanced = NotRun
    /\ result = Unset
    /\ query_args = None
    /\ reply = ""
    /\ added = <<>>
    /\ today = 0
    /\ query_data = Unset
    /\ resolved = Unset
    /\ ocr_text = <<>>
    /\ upi_amount = Unset
    /\ found = Unset
    /\ balance = Unset

-----------------------------------------------------------------------------
(* One update, run step by step on every answer of the Inference Service *)

S_QUERY == <<"Q", "U", "E", "R", "Y">>

S_blank == <<" ", " ">>

\* the text of a message: Telegram delivers no empty text
PipelineMessages == {S_spent_50, S_hello}

\* the answers to the rephrase prompt: a failure, a sentence, nothing, blanks
PipelineRephraseAnswers == {GroqRaises, GroqText(S_Spent_Rs50), GroqText(<<>>), GroqText(S_blank)}

\* the answers to the classification prompt: a failure, each label (also in
\* capitals and padded), and text that is no label
PipelineTypeAnswers ==
    TypeAnswers \cup {GroqText(S_unknown), GroqText(S_QUERY), GroqText(<<>>), GroqText(S_hello)}

\* the answers to the transaction prompt: a failure, no JSON, JSON that is no
\* object, objects with and without each required field, an object that
\* brings message fields of its own, and objects with a null type or an amount
\* in quotes
PipelineTransactionAnswers ==
    {GroqRaises, GroqGarbage, GroqJson(None), GroqJson(JList(1)), GroqJson(JInt(5))}
    \cup {GroqJson(Obj([amount |-> a, type |-> t, description |-> d])) :
            t \in {Absent, JStr(S_expense)}, a \in {Absent, JInt(50)},
            d \in {Absent, JStr(S_groceries)}}
    \cup {GroqJson(Obj([amount |-> JInt(50),
                        type |-> JStr(S_expense),
                        description |-> JStr(S_groceries),
                        rephrased_message |-> JStr(S_abc),
                        original_message |-> JStr(S_abc)]))}
    \cup {GroqJson(Obj([amount |-> a, type |-> t, description |-> JStr(S_groceries)])) :
            t \in {None, JStr(S_income)}, a \in {JInt(500), JStr(S_500)}}

\* the answers to the query prompt
PipelineQueryAnswers ==
    {GroqRaises, GroqGarbage, GroqJson(None), GroqJson(JList(1))}
    \cup {GroqJson(Obj([type |-> JStr(S_expense), start_date |-> s, intent |-> JStr(S_list),
                        end_date |-> Absent])) :
            s \in {Absent, JStr(S_last_week), JInt(7)}}

\* the answers to the screenshot prompt: those of ScreenshotAnswers, and objects
\* with a positive amount that pass or fail the validator or the enhancer, one
\* of them with an app name that is a number, and objects with the amounts 12.7,
\* 0.5 and true
PipelineScreenshotAnswers ==
    ScreenshotAnswers
    \cup {GroqJson(Obj([amount |-> a,
                        type |-> t,
                        description |-> d,
                        recipient_sender |-> JStr(S_dad),
                        app_name |-> p])) :
            a \in {JInt(500), JInf(1)}, t \in {Absent, JStr(S_expense), JStr(S_transfer)},
            d \in {Absent, JStr(S_groceries), JInt(7)}, p \in AppValues}
    \cup {GroqJson(Obj([amount |-> JInt(500),
                        type |-> JStr(S_expense),
                        description |-> JStr(S_groceries),
                        app_name |-> JInt(7)]))}
    \cup {GroqJson(Obj([amount |-> a,
                        type |-> JStr(S_expense),
                        description |-> JStr(S_groceries)])) :
            a \in {JFloat(127), JFloat(5), JBool(TRUE)}}

PipelineUpdates ==
    {Update("text", user_id, text, <<>>, now) :
        user_id \in Users, text \in PipelineMessages, now \in BotDays}
    \cup {Update("photo", user_id, S_abc, caption, now) :
            user_id \in Users, caption \in Captions, now \in BotDays}

InitPipeline == \E update \in PipelineUpdates : InitThreads(<<update>>)

NextPipeline ==
    \E t \in DOMAIN thread :
        \/ Rephrase(t, PipelineRephraseAnswers)
        \/ Classify(t, PipelineTypeAnswers)
        \/ Extract(t, PipelineTransactionAnswers, PipelineQueryAnswers)
        \/ Dispatch(t)
        \/ ParseShot(t, PipelineScreenshotAnswers)
        \/ ValidateShot(t)
        \/ EnhanceShot(t)
        \/ PersistShot(t)

SpecPipeline == InitPipeline /\ [][NextPipeline]_vars
-----------------------------------------------------------------------------
(* Properties of the text pipeline, under SpecPipeline *)

\* the threads whose update is a text message
TextThreads == {t \in DOMAIN thread : thread[t].update.kind = "text"}

\* the threads whose update is a screenshot
PhotoThreads == {t \in DOMAIN thread : thread[t].update.kind = "photo"}

\* the answers a thread got from the Inference Service, in the order of its calls
AnswerOf(t, i) == thread[t].calls[i].groq

\* the thread has the return value of parse_message
HasResult(t) == t \in TextThreads /\ thread[t].pc \in {"dispatch", "done"}

KnownLabels == {S_transaction, S_query, S_balance, S_unknown}

\* the label the claim gives an answer of the Inference Service: the answer
\* trimmed and lower-cased when that is a known label, unknown otherwise and
\* unknown on a failure
C12_Label(groq) ==
    IF groq.status = "raise" THEN S_unknown
    ELSE IF Lower(Strip(groq.text)) \in KnownLabels THEN Lower(Strip(groq.text))
    ELSE S_unknown

\* the record classify returns for an unknown message
C12_UnknownRecord(t) ==
    /\ Get(thread[t].result, "type") = JStr(S_unknown)
    /\ Get(thread[t].result, "message") = JStr(thread[t].rephrased_message)
    /\ ~HasKey(thread[t].result, "message_type")

\* C12: classify acts on exactly one of the labels transaction, query, balance,
\* unknown: with the label the answer spells once trimmed and lower-cased it
\* takes the branch of that label, with any other answer and with a failure of
\* the call it takes the unknown branch (no extraction call, the unknown
\* record), and in every case parse_message gets a record back, never an
\* exception.
C12_OneOfFourLabels ==
    \A t \in TextThreads :
        Len(thread[t].calls) >= 2 =>
            LET label == C12_Label(AnswerOf(t, 2))
            IN  /\ label \in KnownLabels
                /\ label \in {S_transaction, S_query} <=>
                       (thread[t].pc = "extract" \/ Len(thread[t].calls) = 3)
                /\ HasResult(t) =>
                    /\ IsDict(thread[t].result)
                    /\ label = S_unknown => C12_UnknownRecord(t)
                    /\ label = S_balance =>
                           Get(thread[t].result, "message_type") = JStr(S_balance)
                    /\ label = S_transaction =>
                           \/ Get(thread[t].result, "message_type") = JStr(S_transaction)
                           \/ Get(thread[t].result, "type") = JStr(S_error)
                    /\ label = S_query =>
                           \/ Get(thread[t].result, "message_type") = JStr(S_query)
                           \/ Get(thread[t].result, "intent") = JStr(S_error)

\* a message whose classification answer was no label has been parsed as unknown
C12_Witness ==
    \E t \in TextThreads :
        /\ HasResult(t)
        /\ AnswerOf(t, 2) = GroqText(S_hello)
        /\ C12_UnknownRecord(t)

\* the thread has made its extraction call
Extracted(t) == t \in TextThreads /\ Len(thread[t].calls) = 3 /\ HasResult(t)

\* the answer is a JSON object
C13_IsJsonObject(groq) == groq.status = "json" /\ groq.value.k = "dict"

\* the value is a string that starts with the given words
C13_StartsWith(value, words) ==
    /\ value.k = "str"
    /\ Len(value.s) >= Len(words)
    /\ SubSeq(value.s, 1, Len(words)) = words

\* C13: the extractors return to classify on every answer. When the call fails
\* or the answer is no JSON object, the transaction extractor returns a record
\* with type = error and a message, the query extractor a record with
\* intent = error and a message; when the answer is a JSON object the record
\* is that object, marked with its message type. parse_message returns a
\* record (with the original message) in every case.
C13_ErrorsAsValues ==
    /\ \A t \in TextThreads : HasResult(t) =>
            /\ IsDict(thread[t].result)
            /\ Get(thread[t].result, "original_message") = JStr(thread[t].update.text)
    /\ \A t \in TextThreads : Extracted(t) =>
            IF C13_IsJsonObject(AnswerOf(t, 3))
            THEN /\ Get(thread[t].result, "message_type") = JStr(thread[t].message_type)
                 /\ \A key \in DOMAIN AnswerOf(t, 3).value.d :
                        key \notin {"start_date", "end_date", "original_message",
                                     "rephrased_message"} =>
                            Get(thread[t].result, key) = AnswerOf(t, 3).value.d[key]
            ELSE /\ ~HasKey(thread[t].result, "message_type")
                 /\ thread[t].message_type = S_transaction =>
                        /\ Get(thread[t].result, "type") = JStr(S_error)
                        /\ C13_StartsWith(Get(thread[t].result, "message"),
                                          <<"C", "o", "u", "l", "d", " ", "n", "o", "t", " ",
                                            "p", "a", "r", "s", "e", " ", "t", "r", "a", "n",
                                            "s", "a", "c", "t", "i", "o", "n">>)
                 /\ thread[t].message_type = S_query =>
                        /\ Get(thread[t].result, "intent") = JStr(S_error)
                        /\ C13_StartsWith(Get(thread[t].result, "message"),
                                          <<"C", "o", "u", "l", "d", " ", "n", "o", "t", " ",
                                            "p", "a", "r", "s", "e", " ", "q", "u", "e", "r", "y">>)

\* the transaction prompt was answered with JSON that is no object, and
\* parse_message returned the error record
C13_Witness ==
    \E t \in TextThreads :
        /\ Extracted(t)
        /\ thread[t].message_type = S_transaction
        /\ AnswerOf(t, 3) = GroqJson(JList(1))
        /\ Get(thread[t].result, "type") = JStr(S_error)

\* the thread has the return value of rephrase
Rephrased(t) == t \in TextThreads /\ Len(thread[t].calls) >= 1

\* C14: when the call of the rephrase stage fails, rephrase returns the user's
\* message unchanged instead of raising: the pipeline goes on to classify, and
\* the record parse_message returns carries the original text as its
\* rephrased_message (and as the message of an unknown record).
C14_RephraseFallsBack ==
    \A t \in TextThreads :
        Rephrased(t) /\ AnswerOf(t, 1).status = "raise" =>
            /\ thread[t].rephrased_message = thread[t].update.text
            /\ thread[t].pc # "rephrase"
            /\ HasResult(t) =>
                /\ Get(thread[t].result, "rephrased_message") = JStr(thread[t].update.text)
                /\ Get(thread[t].result, "type") = JStr(S_unknown) =>
                       Get(thread[t].result, "message") = JStr(thread[t].update.text)

\* the rephrase call failed and the message was then classified and parsed
C14_Witness ==
    \E t \in TextThreads :
        /\ HasResult(t)
        /\ AnswerOf(t, 1) = GroqRaises
        /\ thread[t].update.text = S_spent_50
        /\ Get(thread[t].result, "rephrased_message") = JStr(S_spent_50)

\* C15, as the specification states it: for a non-empty message the canonical
\* message rephrase returns is non-empty, whatever the Inference Service
\* answered.
C15_CanonicalNeverEmpty ==
    \A t \in TextThreads :
        Rephrased(t) /\ thread[t].update.text # <<>> => thread[t].rephrased_message # <<>>

\* a non-empty message whose rephrase prompt was answered with blanks only has
\* the empty string as its canonical message
C15_Witness ==
    \E t \in TextThreads :
        /\ Rephrased(t)
        /\ thread[t].update.text = S_spent_50
        /\ AnswerOf(t, 1) = GroqText(S_blank)
        /\ thread[t].rephrased_message = <<>>

-----------------------------------------------------------------------------
(* Properties of handle_message and handle_photo, under SpecPipeline *)

RequiredKeys == {"type", "amount", "description"}

\* the thread's handler has returned
Done(t) == thread[t].pc = "done"

\* parse_message returned a record the transaction extractor parsed
ParsedAsTransaction(t) ==
    /\ HasResult(t)
    /\ Get(thread[t].result, "message_type") = JStr(S_transaction)

\* C16: a record of a typed transaction that lacks the key type, amount or
\* description is never inserted: handle_transaction answers "Incomplete
\* transaction data" and the collection stays as it was. The record the
\* extractor returns has a required key exactly when the object the Inference
\* Service answered has it, and then with the same value.
C16_IncompleteNeverAdded ==
    \A t \in TextThreads :
        /\ ParsedAsTransaction(t) =>
            \A key \in RequiredKeys :
                /\ HasKey(thread[t].result, key) <=> HasKey(AnswerOf(t, 3).value, key)
                /\ Get(thread[t].result, key) = Get(AnswerOf(t, 3).value, key)
        /\ ParsedAsTransaction(t) /\ Done(t)
           /\ (\E key \in RequiredKeys : ~HasKey(thread[t].result, key)) =>
                /\ thread[t].added = <<>>
                /\ thread[t].reply = "Incomplete transaction data"
                /\ ledger = <<>>

\* a typed transaction whose record has no description has been handled
C16_Witness ==
    \E t \in TextThreads :
        /\ ParsedAsTransaction(t)
        /\ Done(t)
        /\ HasKey(thread[t].result, "type")
        /\ HasKey(thread[t].result, "amount")
        /\ ~HasKey(thread[t].result, "description")
        /\ thread[t].reply = "Incomplete transaction data"

\* the stages of the calls a thread has made, in order
StagesOf(t) == [i \in 1..Len(thread[t].calls) |-> thread[t].calls[i].stage]

\* the order in which a text message calls the Inference Service
C17_TextOrder == <<"rephrase", "classify", "extract">>

ValidatedValid(t) == thread[t].validation.exc = "" /\ thread[t].validation.v.is_valid

\* validate_upi_transaction ran and did not return valid: it returned
\* (False, ...) or raised
ValidationFailed(t) == thread[t].validation # NotRun /\ ~ValidatedValid(t)

\* the record parse_upi_screenshot returned to the thread
C18_Extracted(t) == parse_upi_screenshot(AnswerOf(t, 1))

\* C18: on the screenshot path the stages run in the order extract, validate,
\* enhance, persist. The validator runs only on the extracted record, the
\* enhancer only after the validator returned valid, and a document is inserted
\* only after both: its description is the output of enhance_upi_description
\* on the extracted record, applied once, and the rest of it is the extracted
\* record. A record that fails validation is neither enhanced nor inserted.
C18_StagesInOrder ==
    \A t \in PhotoThreads :
        /\ thread[t].validation # NotRun =>
            /\ thread[t].calls # <<>>
            /\ thread[t].validation = validate_upi_transaction(C18_Extracted(t))
        /\ thread[t].enhanced # NotRun =>
            /\ ValidatedValid(t)
            /\ thread[t].enhanced =
                   enhance_upi_description(C18_Extracted(t), thread[t].update.caption)
        /\ thread[t].added # <<>> =>
            /\ ValidatedValid(t)
            /\ thread[t].enhanced.exc = ""
            /\ Len(thread[t].added) = 1
            /\ thread[t].added[1].description = thread[t].enhanced.v
            /\ thread[t].added[1].amount = Get(C18_Extracted(t), "amount")
            /\ thread[t].added[1].type = Get(C18_Extracted(t), "type")
            /\ ledger = thread[t].added
        /\ ValidationFailed(t) =>
            /\ thread[t].enhanced = NotRun
            /\ thread[t].added = <<>>
            /\ ledger = <<>>
            /\ thread[t].pc = "done"
        /\ thread[t].added = <<>> => ledger = <<>>

\* a screenshot with a caption has gone through all four stages: the inserted
\* document carries the enhanced description
C18_Witness ==
    \E t \in PhotoThreads :
        /\ Done(t)
        /\ thread[t].update.caption = S_lunch_money
        /\ ValidatedValid(t)
        /\ Len(thread[t].added) = 1
        /\ thread[t].added[1].description =
               JStr(S_lunch_money \o <<" ", "(">> \o S_groceries
                    \o <<")", " ", "[", "p", "a", "i", "d", " ", "t", "o", " ">> \o S_dad \o <<"]">>)
        /\ ledger = thread[t].added

\* a screenshot whose record failed validation has been answered
C18_WitnessRejected ==
    \E t \in PhotoThreads :
        /\ Done(t)
        /\ ValidationFailed(t)
        /\ thread[t].reply = "Could not process transaction"

-----------------------------------------------------------------------------
(* Two updates, each in its own thread, their steps interleaved *)

ThreadsRephraseAnswers == {GroqRaises, GroqText(S_Spent_Rs50)}

ThreadsTypeAnswers == {GroqRaises, GroqText(S_transaction), GroqText(S_query), GroqText(S_balance)}

ThreadsTransactionAnswers ==
    {GroqRaises,
     GroqJson(Obj([amount |-> JInt(50), type |-> JStr(S_expense),
                   description |-> JStr(S_groceries)]))}

ThreadsQueryAnswers ==
    {GroqJson(Obj([type |-> JStr(S_expense), start_date |-> JStr(S_last_week),
                   intent |-> JStr(S_list), end_date |-> Absent]))}

ThreadsScreenshotAnswers ==
    {GroqRaises,
     GroqJson(Obj([amount |-> JInt(500), type |-> JStr(S_income),
                   description |-> JStr(S_groceries), recipient_sender |-> JStr(S_dad),
                   app_name |-> Absent])),
     GroqJson(Obj([amount |-> JInt(500), type |-> JStr(S_transfer),
                   description |-> JStr(S_groceries), recipient_sender |-> JStr(S_dad),
                   app_name |-> Absent]))}

ThreadsUpdates ==
    {Update("text", user_id, S_spent_50, <<>>, now) : user_id \in Users, now \in BotDays}
    \cup {Update("photo", user_id, S_abc, S_lunch_money, now) : user_id \in Users, now \in BotDays}

\* webhook has started one thread for each of two updates
InitTwoThreads == \E first \in ThreadsUpdates, second \in ThreadsUpdates : InitThreads(<<first, second>>)

NextThreads ==
    \E t \in DOMAIN thread :
        \/ Rephrase(t, ThreadsRephraseAnswers)
        \/ Classify(t, ThreadsTypeAnswers)
        \/ Extract(t, ThreadsTransactionAnswers, ThreadsQueryAnswers)
        \/ Dispatch(t)
        \/ ParseShot(t, ThreadsScreenshotAnswers)
        \/ ValidateShot(t)
        \/ EnhanceShot(t)
        \/ PersistShot(t)

SpecThreads == InitTwoThreads /\ [][NextThreads]_vars

-----------------------------------------------------------------------------
(* Properties of concurrent updates, under SpecThreads *)

\* the i-th answer a thread got, a failure when it made no i-th call
AnswerOr(t, i) == IF i <= Len(thread[t].calls) THEN AnswerOf(t, i) ELSE GroqRaises

\* what parse_message returns when the update of thread t is processed alone
\* with the answers thread t got
AloneResult(t) ==
    parse_message(thread[t].update.text, AnswerOr(t, 1), AnswerOr(t, 2), AnswerOr(t, 3),
                  thread[t].update.now)

\* what the handler of thread t's update computes, inserts and replies when it
\* runs alone with the answers thread t got
AloneOutcome(t) ==
    IF thread[t].update.kind = "text"
    THEN dispatch(thread[t].update.user, AloneResult(t))
    ELSE handle_photo(thread[t].update.user, thread[t].update.caption, AnswerOr(t, 1))

\* a finished thread computed and inserted what its update gives when processed alone
C19_SameAsAlone ==
    \A t \in DOMAIN thread : Done(t) =>
        /\ thread[t].added = AloneOutcome(t).added
        /\ thread[t].reply = AloneOutcome(t).reply
        /\ t \in TextThreads => thread[t].result = AloneResult(t)
        /\ t \in PhotoThreads => thread[t].transaction_data = AloneOutcome(t).transaction_data

\* the collection holds the documents the threads inserted, and no other
C19_LedgerHoldsBoth ==
    ledger \in {thread[1].added \o thread[2].added, thread[2].added \o thread[1].added}

\* a step is a step of one thread: it changes the locals of that thread only,
\* and the collection only by appending what that thread inserted
C19_OnlyLedgerShared ==
    \E t \in DOMAIN thread :
        /\ \A u \in DOMAIN thread \ {t} : thread'[u] = thread[u]
        /\ ledger' = ledger \/ ledger' = ledger \o thread'[t].added
        /\ UNCHANGED <<event, transaction_data, user_description, validation, enhanced, result,
                       query_args, reply, added, today, query_data, resolved,
                       ocr_text, upi_amount, found, balance>>

\* C19: two updates processed in two threads are independent in every
\* interleaving of their steps. Each thread's parse result, reply and inserted
\* document are those its update gives when processed alone with the same
\* answers of the Inference Service; the collection holds the inserts of both,
\* in the order they were made; and every step changes only the locals of the
\* thread that takes it and, by an insert, the collection.
C19_Independent == [](C19_SameAsAlone /\ C19_LedgerHoldsBoth) /\ [][C19_OnlyLedgerShared]_vars

\* both threads have finished, each inserted a document, and the thread started
\* second inserted first
C19_Witness ==
    /\ Done(1)
    /\ Done(2)
    /\ thread[1].update.kind = "text"
    /\ thread[2].update.kind = "photo"
    /\ Len(thread[1].added) = 1
    /\ Len(thread[2].added) = 1
    /\ ledger = thread[2].added \o thread[1].added

-----------------------------------------------------------------------------
(* Properties of the collection, under Spec *)

\* the documents of `docs` that do not belong to user_id, in order
C20_OthersOf(docs, user_id) == SelectSeq(docs, LAMBDA doc : doc.user_id # user_id)

\* docs is an initial part of more
C20_IsPrefix(docs, more) == Len(docs) <= Len(more) /\ SubSeq(more, 1, Len(docs)) = docs

\* a step that handles a text message or a screenshot keeps every document
\* there was, unchanged and in place, and adds at most one, of the sender
C20_HandlerAppendsOnly ==
    event'.kind \in {"text", "photo"} =>
        /\ C20_IsPrefix(ledger, ledger')
        /\ Len(ledger') <= Len(ledger) + 1
        /\ \A i \in (Len(ledger) + 1)..Len(ledger') : ledger'[i].user_id = event'.user

\* a /delete_all step removes the documents of its user and keeps the others
C20_DeleteAllOwnOnly ==
    event'.kind = "delete_all" => ledger' = C20_OthersOf(ledger, event'.user)

\* C20: handling a text message or a screenshot never removes or changes a
\* document already in the collection and inserts at most one; documents are
\* removed only by /delete_all, which removes exactly the documents of the
\* user who sent it and leaves every other user's documents as they were.
C20_Frame ==
    [][/\ C20_HandlerAppendsOnly
       /\ C20_DeleteAllOwnOnly
       /\ ~C20_IsPrefix(ledger, ledger') => event'.kind = "delete_all"]_vars

\* /delete_all of user 1 has run and a document of user 2 is still there
C20_Witness ==
    /\ event.kind = "delete_all"
    /\ event.user = 1
    /\ Len(ledger) = 1
    /\ ledger[1].user_id = 2

-----------------------------------------------------------------------------
(* upi_ocr.py extract_upi_amount: the regular expressions of amount_patterns, *)
(* each as the search re.findall makes for its first match                    *)

\* what \s matches
IsSpace(c) == c \in {" ", "\n", "\t"}

\* s[i], and the empty string beyond the ends of s
At(s, i) == IF i >= 1 /\ i <= Len(s) THEN s[i] ELSE ""

RECURSIVE DigitsEnd(_, _)
\* \d+ at i, greedy: the last index of the run of digits that starts at i
DigitsEnd(s, i) == IF IsDigit(At(s, i)) THEN DigitsEnd(s, i + 1) ELSE i - 1

RECURSIVE CommaGroupsEnd(_, _)
\* (?:,\d+)* after index e, greedy
CommaGroupsEnd(s, e) ==
    IF At(s, e + 1) = "," /\ IsDigit(At(s, e + 2))
    THEN CommaGroupsEnd(s, DigitsEnd(s, e + 2))
    ELSE e

\* (?:\.\d{2})? after index e, greedy
FractionEnd(s, e) ==
    IF At(s, e + 1) = "." /\ IsDigit(At(s, e + 2)) /\ IsDigit(At(s, e + 3)) THEN e + 3 ELSE e

\* the last index of the greedy match of \d+(?:,\d+)*(?:\.\d{2})? at the digit s[i]
AmountEnd(s, i) == FractionEnd(s, CommaGroupsEnd(s, DigitsEnd(s, i)))

RECURSIVE SkipSpace(_, _)
\* \s* at i, greedy: the first index from i on that holds no white space
SkipSpace(s, i) == IF IsSpace(At(s, i)) THEN SkipSpace(s, i + 1) ELSE i

\* whether the lower-case word occurs at i, under re.IGNORECASE
StartsAt(s, word, i) ==
    /\ i + Len(word) - 1 <= Len(s)
    /\ Lower(SubSeq(s, i, i + Len(word) - 1)) = word

\* the least element of a non-empty set of indices
Least(indices) == CHOOSE i \in indices : \A j \in indices : i <= j

\* the group of marker\.?\s*(\d+(?:,\d+)*(?:\.\d{2})?) matched at i (\.? only
\* with dotted), the empty string when it does not match there
MarkedAmountAt(s, marker, dotted, i) ==
    LET after == i + Len(marker)
        start == SkipSpace(s, IF dotted /\ At(s, after) = "." THEN after + 1 ELSE after)
    IN  IF StartsAt(s, marker, i) /\ IsDigit(At(s, start))
        THEN SubSeq(s, start, AmountEnd(s, start))
        ELSE <<>>

\* re.findall(pattern, text, re.IGNORECASE)[0] for the patterns with a
\* currency marker, the empty string when there is no match
FirstMarkedAmount(s, marker, dotted) ==
    LET hits == {i \in 1..Len(s) : MarkedAmountAt(s, marker, dotted, i) # <<>>}
    IN  IF hits = {} THEN <<>> ELSE MarkedAmountAt(s, marker, dotted, Least(hits))

\* whether the string matches \d+(?:,\d+)* as a whole
IsGroupedDigits(b) ==
    /\ b # <<>>
    /\ \A i \in 1..Len(b) : IsDigit(b[i]) \/ b[i] = ","
    /\ IsDigit(b[1])
    /\ IsDigit(b[Len(b)])
    /\ \A i \in 1..(Len(b) - 1) : ~(b[i] = "," /\ b[i + 1] = ",")

\* whether the string matches \d+(?:,\d+)*(?:\.\d{2})? as a whole
IsAmountToken(tok) ==
    LET n == Len(tok)
    IN  \/ IsGroupedDigits(tok)
        \/ /\ n >= 4
           /\ tok[n - 2] = "."
           /\ IsDigit(tok[n - 1])
           /\ IsDigit(tok[n])
           /\ IsGroupedDigits(SubSeq(tok, 1, n - 3))

\* whether (\d+(?:,\d+)*(?:\.\d{2})?)\s*/- matches at i with the group ending at e
SlashDashAt(s, i, e) ==
    /\ IsAmountToken(SubSeq(s, i, e))
    /\ At(s, SkipSpace(s, e + 1)) = "/"
    /\ At(s, SkipSpace(s, e + 1) + 1) = "-"

\* re.findall(...)[0] for the pattern of an amount followed by /-
FirstSlashDashAmount(s) ==
    LET hits == {i \in 1..Len(s) : \E e \in i..Len(s) : SlashDashAt(s, i, e)}
        i == Least(hits)
    IN  IF hits = {} THEN <<>>
        ELSE SubSeq(s, i, CHOOSE e \in i..Len(s) : SlashDashAt(s, i, e))

RECURSIVE FirstDigitOnLine(_, _)
\* .*? before a digit: the index of the first digit from i on, 0 when the line
\* or the text ends before one
FirstDigitOnLine(s, i) ==
    IF i > Len(s) \/ At(s, i) = "\n" THEN 0
    ELSE IF IsDigit(At(s, i)) THEN i
    ELSE FirstDigitOnLine(s, i + 1)

\* the group of word\s*.*?(\d+(?:,\d+)*(?:\.\d{2})?) matched at i
KeywordAmountAt(s, word, i) ==
    LET start == FirstDigitOnLine(s, SkipSpace(s, i + Len(word)))
    IN  IF StartsAt(s, word, i) /\ start # 0
        THEN SubSeq(s, start, AmountEnd(s, start))
        ELSE <<>>

\* re.findall(...)[0] for the patterns with paid, sent, received
FirstKeywordAmount(s, word) ==
    LET hits == {i \in 1..Len(s) : KeywordAmountAt(s, word, i) # <<>>}
    IN  IF hits = {} THEN <<>> ELSE KeywordAmountAt(s, word, Least(hits))

S_rupee == <<"₹">>

S_rs == <<"r", "s">>

S_inr == <<"i", "n", "r">>

S_paid == <<"p", "a", "i", "d">>

S_sent == <<"s", "e", "n", "t">>

S_received == <<"r", "e", "c", "e", "i", "v", "e", "d">>

\* matches[0] of each pattern of amount_patterns, in the order of the list
amount_matches(text) ==
    <<FirstMarkedAmount(text, S_rupee, FALSE),
      FirstMarkedAmount(text, S_rs, TRUE),
      FirstMarkedAmount(text, S_inr, FALSE),
      FirstSlashDashAmount(text),
      FirstKeywordAmount(text, S_paid),
      FirstKeywordAmount(text, S_sent),
      FirstKeywordAmount(text, S_received)>>

\* matches[0].replace(',', '').replace('.', '')
amount_str(token) == SelectSeq(token, LAMBDA c : c \notin {",", "."})

\* extract_upi_amount: int(amount_str) of the first pattern that matches, None
\* when none does (amount_str holds digits only, so int does not raise)
extract_upi_amount(text) ==
    LET matches == amount_matches(text)
        hits == {p \in 1..Len(matches) : matches[p] # <<>>}
    IN  IF hits = {} THEN None
        ELSE JInt(DigitsValue(amount_str(matches[Least(hits)])))

-----------------------------------------------------------------------------
(* extract_upi_amount on transcripts made of a marker, an amount and a tail *)

\* what stands before the amount: nothing, a currency marker, a keyword
AmountMarkers ==
    {<<>>, S_rupee, <<"₹", " ">>, <<"R", "s", " ">>, <<"R", "s", ".">>, <<"I", "N", "R", " ">>,
     <<"P", "a", "i", "d", " ">>, <<"s", "e", "n", "t", " ", "t", "o", " ", "d", "a", "d", " ">>,
     <<"r", "e", "c", "e", "i", "v", "e", "d", "\n">>}

\* the amount as the screenshot prints it: whole rupees, with paise, with
\* thousands separators, with one decimal
AmountNumbers ==
    {<<"1", "2", "3">>, <<"1", "2", "3", ".", "0", "0">>, <<"4", "5", ".", "5", "0">>,
     <<"1", ",", "2", "0", "0">>, <<"1", ",", "2", "0", "0", ".", "5", "0">>,
     <<"1", "2", ".", "5">>, <<"0">>}

\* what follows the amount: nothing, the /- of a price, a second amount
AmountTails == {<<>>, <<"/", "-">>, <<" ", "/", "-">>, <<" ", "₹", "7">>}

AmountTranscripts ==
    {marker \o number \o tail :
        marker \in AmountMarkers, number \in AmountNumbers, tail \in AmountTails}

\* the OCR transcript is read, nothing is extracted yet
InitAmount ==
    /\ ocr_text \in AmountTranscripts
    /\ upi_amount = Unset
    /\ found = Unset
    /\ balance = Unset
    /\ thread = <<>>
    /\ ledger = <<>>
    /\ event = NoEvent
    /\ transaction_data = Unset
    /\ user_description = <<>>
    /\ validation = NotRun
    /\ enhanced = NotRun
    /\ result = Unset
    /\ query_args = None
    /\ reply = ""
    /\ added = <<>>
    /\ today = 0
    /\ query_data = Unset
    /\ resolved = Unset

\* extract_upi_amount(text)
ExtractAmount ==
    /\ upi_amount = Unset
    /\ upi_amount' = extract_upi_amount(ocr_text)
    /\ UNCHANGED <<ledger, event, transaction_data, user_description, validation, enhanced,
                   result, query_args, reply, added, today, query_data, resolved, thread,
                   ocr_text, found, balance>>

NextAmount == ExtractAmount

SpecAmount == InitAmount /\ [][NextAmount]_vars

-----------------------------------------------------------------------------
(* Properties of extract_upi_amount, under SpecAmount *)

\* the amount token extract_upi_amount reads: the first match of the first
\* pattern that matches, the empty string when no pattern matches
C21_Token ==
    LET matches == amount_matches(ocr_text)
        hits == {p \in 1..Len(matches) : matches[p] # <<>>}
    IN  IF hits = {} THEN <<>> ELSE matches[Least(hits)]

\* the part of an amount token before its decimal point
C21_IntegerPart(token) ==
    LET dots == {i \in 1..Len(token) : token[i] = "."}
    IN  IF dots = {} THEN token ELSE SubSeq(token, 1, Least(dots) - 1)

\* the whole rupees an amount token stands for: its integer part, read without
\* the thousands separators
C21_Rupees(token) == DigitsValue(SelectSeq(C21_IntegerPart(token), LAMBDA c : c # ","))

\* C21, as the specification states it: extract_upi_amount returns the whole
\* rupees of the amount token, truncating a decimal fraction ("₹123.00" gives
\* 123, "Rs 45.50" gives 45) and ignoring thousands separators ("₹1,200" gives
\* 1200).
C21_TruncatesFraction ==
    upi_amount # Unset /\ C21_Token # <<>> => upi_amount = JInt(C21_Rupees(C21_Token))

\* what the function does for a token without a fraction: the whole rupees,
\* thousands separators ignored
C21_WithoutFraction ==
    upi_amount # Unset /\ C21_Token # <<>> /\ C21_IntegerPart(C21_Token) = C21_Token =>
        upi_amount = JInt(C21_Rupees(C21_Token))

\* the amount of "₹123.00" has been extracted as 12300
C21_Witness ==
    /\ ocr_text = <<"₹", "1", "2", "3", ".", "0", "0">>
    /\ upi_amount = JInt(12300)

-----------------------------------------------------------------------------
(* db.py query_transactions, called without dates, category and amount *)

\* {"$regex": pattern, "$options": "i"} on a field value: the pattern, read as a
\* regular expression, matches somewhere in a string; a value that is no
\* string or is missing does not match. The patterns drawn are made of
\* letters, digits and the dot, which matches any character but a newline.
regex_search(pattern, value) ==
    /\ value.k = "str"
    /\ \E start \in 1..(Len(value.s) - Len(pattern) + 1) :
        \A i \in 1..Len(pattern) :
            IF pattern[i] = "."
            THEN value.s[start + i - 1] # "\n"
            ELSE Lower(<<value.s[start + i - 1]>>) = Lower(<<pattern[i]>>)

\* the value at upi_data.key of a document
UpiField(doc, key) == IF IsDict(doc.upi_data) THEN Get(doc.upi_data, key) ELSE None

\* query["$or"] = keyword_patterns: four patterns for each keyword
MatchesKeywordPatterns(doc, keywords) ==
    \E k \in 1..Len(keywords) :
        \/ regex_search(keywords[k], doc.description)
        \/ regex_search(keywords[k], UpiField(doc, "recipient_sender"))
        \/ regex_search(keywords[k], UpiField(doc, "app_name"))
        \/ regex_search(keywords[k], UpiField(doc, "transaction_id"))

\* the query document of query_transactions, as a test of one document
MatchesQuery(doc, user_id, txn_type, keywords) ==
    /\ doc.user_id = user_id
    /\ txn_type # JStr(S_both) => doc.type = txn_type
    /\ keywords # <<>> => MatchesKeywordPatterns(doc, keywords)

RECURSIVE FindSorted(_, _, _, _)
\* transactions.find(query).sort("timestamp", -1): the matching documents, the
\* last inserted first
FindSorted(docs, user_id, txn_type, keywords) ==
    IF docs = <<>> THEN <<>>
    ELSE (IF MatchesQuery(docs[Len(docs)], user_id, txn_type, keywords)
          THEN <<docs[Len(docs)]>> ELSE <<>>)
         \o FindSorted(SubSeq(docs, 1, Len(docs) - 1), user_id, txn_type, keywords)

\* query_transactions(user_id, txn_type, keywords=keywords)
query_transactions(docs, user_id, txn_type, keywords) ==
    FindSorted(docs, user_id, txn_type, keywords)

-----------------------------------------------------------------------------
(* query_transactions on every collection of up to MaxLedger documents *)

S_Lunch == <<"L", "u", "n", "c", "h">>

S_DAD == <<"D", "A", "D">>

S_d_d == <<"d", ".", "d">>

S_pay == <<"p", "a", "y">>

S_xyz == <<"x", "y", "z">>

\* the documents in the collection: of both users, typed or from a screenshot
QueryDocs ==
    {add_transaction(user_id,
                     Obj([amount |-> JInt(50),
                          type |-> JStr(S_expense),
                          description |-> d,
                          recipient_sender |-> r,
                          transaction_id |-> x,
                          app_name |-> p])) :
        user_id \in Users, d \in {JStr(S_groceries), JStr(S_Lunch)},
        r \in {Absent, JStr(S_dad)}, p \in {Absent, JStr(S_gpay)}, x \in {Absent, JStr(S_abc)}}

RECURSIVE SeqsUpTo(_, _)
\* the sequences of at most n elements of set
SeqsUpTo(set, n) ==
    IF n = 0 THEN {<<>>}
    ELSE SeqsUpTo(set, n - 1) \cup {Append(s, x) : s \in SeqsUpTo(set, n - 1), x \in set}

\* the keywords of the query: none, a word in either case, a word with a dot,
\* two words, a word that occurs nowhere
QueryKeywords ==
    {<<>>, <<S_dad>>, <<S_DAD>>, <<S_d_d>>, <<S_pay, S_abc>>, <<S_xyz, S_Lunch>>, <<S_xyz>>}

\* the collection is filled and handle_query has read the query record
InitQuery ==
    /\ ledger \in SeqsUpTo(QueryDocs, MaxLedger)
    /\ \E user_id \in Users, txn_type \in {JStr(S_both), JStr(S_expense), JStr(S_income)},
          keywords \in QueryKeywords :
        query_args = [user_id |-> user_id, txn_type |-> txn_type, keywords |-> keywords]
    /\ found = Unset
    /\ ocr_text = <<>>
    /\ upi_amount = Unset
    /\ balance = Unset
    /\ thread = <<>>
    /\ event = NoEvent
    /\ transaction_data = Unset
    /\ user_description = <<>>
    /\ validation = NotRun
    /\ enhanced = NotRun
    /\ result = Unset
    /\ reply = ""
    /\ added = <<>>
    /\ today = 0
    /\ query_data = Unset
    /\ resolved = Unset

\* handle_query: transactions = query_transactions(...)
Query ==
    /\ found = Unset
    /\ found' = query_transactions(ledger, query_args.user_id, query_args.txn_type,
                                   query_args.keywords)
    /\ UNCHANGED <<ledger, event, transaction_data, user_description, validation, enhanced,
                   result, query_args, reply, added, today, query_data, resolved, thread,
                   ocr_text, upi_amount, balance>>

NextQuery == Query

SpecQuery == InitQuery /\ [][NextQuery]_vars

-----------------------------------------------------------------------------
(* Properties of query_transactions, under SpecQuery *)

\* the four fields of a document the keywords are looked up in
C22_Fields(doc) ==
    {doc.description, UpiField(doc, "recipient_sender"), UpiField(doc, "app_name"),
     UpiField(doc, "transaction_id")}

\* the keyword occurs in the field as a substring, whatever the case of the letters
C22_OccursIn(keyword, field) == field.k = "str" /\ Contains(Lower(field.s), Lower(keyword))

\* at least one keyword occurs in at least one of the four fields
C22_SomeKeywordOccurs(doc, keywords) ==
    \E k \in 1..Len(keywords) : \E field \in C22_Fields(doc) : C22_OccursIn(keywords[k], field)

\* the document passes the filters other than the keywords
C22_PassesOtherFilters(doc) ==
    /\ doc.user_id = query_args.user_id
    /\ query_args.txn_type = JStr(S_both) \/ doc.type = query_args.txn_type

\* the document is among those query_transactions returned
C22_Selected(doc) == \E j \in 1..Len(found) : found[j] = doc

\* C22, as the specification states it: when the query has keywords, a document
\* that passes the other filters is returned if and only if at least one
\* keyword occurs, case-insensitively, as a substring of its description,
\* counterparty, app name or transaction reference.
C22_KeywordsBySubstring ==
    found # Unset /\ query_args.keywords # <<>> =>
        \A i \in 1..Len(ledger) :
            C22_Selected(ledger[i]) <=>
                /\ C22_PassesOtherFilters(ledger[i])
                /\ C22_SomeKeywordOccurs(ledger[i], query_args.keywords)

\* the keyword has no character that a regular expression reads specially
C22_IsPlain(keyword) == \A i \in 1..Len(keyword) : keyword[i] # "."

\* what query_transactions does for keywords of letters and digits only: the
\* substring test, OR over keywords and fields
C22_PlainKeywordsBySubstring ==
    /\ found # Unset
    /\ query_args.keywords # <<>>
    /\ \A k \in 1..Len(query_args.keywords) : C22_IsPlain(query_args.keywords[k])
    => \A i \in 1..Len(ledger) :
            C22_Selected(ledger[i]) <=>
                /\ C22_PassesOtherFilters(ledger[i])
                /\ C22_SomeKeywordOccurs(ledger[i], query_args.keywords)

\* the keyword "d.d" selected a document in which "d.d" does not occur: the
\* counterparty is "dad"
C22_Witness ==
    /\ found # Unset
    /\ query_args.keywords = <<S_d_d>>
    /\ Len(ledger) = 1
    /\ UpiField(ledger[1], "recipient_sender") = JStr(S_dad)
    /\ ~C22_SomeKeywordOccurs(ledger[1], query_args.keywords)
    /\ found = ledger

-----------------------------------------------------------------------------
(* Properties of the record parse_message returns, under SpecPipeline *)

\* the kinds of record parse_message returns: of an unknown message, of a failed
\* extraction, of a successful one
C23_IsUnknownRecord(t) == Get(thread[t].result, "type") = JStr(S_unknown)

C23_IsErrorRecord(t) ==
    \/ Get(thread[t].result, "type") = JStr(S_error)
    \/ Get(thread[t].result, "intent") = JStr(S_error)

\* C23: every record parse_message returns - of a transaction, a query, a
\* balance question, an unknown message, and the error record of a failed
\* extraction - has original_message equal to the text of the user's message
\* and rephrased_message equal to what rephrase returned for it, also when the
\* Inference Service's object brought fields of these names.
C23_ProvenanceKept ==
    \A t \in TextThreads : HasResult(t) =>
        /\ HasKey(thread[t].result, "original_message")
        /\ HasKey(thread[t].result, "rephrased_message")
        /\ Get(thread[t].result, "original_message") = JStr(thread[t].update.text)
        /\ Get(thread[t].result, "rephrased_message")
               = JStr(rephrase(thread[t].update.text, AnswerOf(t, 1)))

\* parse_message has returned the error record of a failed extraction for a
\* message that was rephrased
C23_Witness ==
    \E t \in TextThreads :
        /\ HasResult(t)
        /\ C23_IsErrorRecord(t)
        /\ AnswerOf(t, 1) = GroqText(S_Spent_Rs50)
        /\ AnswerOf(t, 3) = GroqRaises
        /\ Get(thread[t].result, "original_message") = JStr(thread[t].update.text)
        /\ Get(thread[t].result, "rephrased_message")
               = JStr(<<"S", "p", "e", "n", "t", " ", "R", "s", "5", "0">>)

-----------------------------------------------------------------------------
(* Properties of the replies of handle_message, under SpecPipeline *)

\* the extraction call of the thread failed: the call raised or its answer was
\* no JSON object
ExtractionFailed(t) == Extracted(t) /\ ~C13_IsJsonObject(AnswerOf(t, 3))

\* C24, as the specification states it: when the extraction fails for a message
\* classified as transaction or query, the error record goes to
\* handle_transaction or handle_query, and the user gets the reply "Error
\* parsing transaction" or "Error parsing query", never the reply to an unknown
\* message.
C24_ErrorRecordGetsErrorReply ==
    \A t \in TextThreads :
        ExtractionFailed(t) /\ Done(t) =>
            /\ thread[t].reply # "I didn't understand that"
            /\ thread[t].message_type = S_transaction =>
                   thread[t].reply = "Error parsing transaction"
            /\ thread[t].message_type = S_query => thread[t].reply = "Error parsing query"

\* a message classified as transaction whose extraction call failed has been
\* answered with the reply to an unknown message
C24_Witness ==
    \E t \in TextThreads :
        /\ Done(t)
        /\ thread[t].message_type = S_transaction
        /\ AnswerOf(t, 3) = GroqRaises
        /\ Get(thread[t].result, "type") = JStr(S_error)
        /\ thread[t].reply = "I didn't understand that"

\* the replies of the except branches of handle_transaction and handle_photo
FailureReplies == {"Error adding transaction", "Error processing screenshot"}

\* C25, as the specification states it: whenever handle_transaction or
\* handle_photo answers with its failure reply, no document was inserted for
\* that update, whatever record the Inference Service returned.
C25_FailureReplyMeansNoInsert ==
    \A t \in DOMAIN thread :
        Done(t) /\ thread[t].reply \in FailureReplies =>
            /\ thread[t].added = <<>>
            /\ ledger = <<>>

\* a typed transaction whose amount came in quotes has been answered with "Error
\* adding transaction", and its document is in the collection
C25_Witness ==
    \E t \in TextThreads :
        /\ Done(t)
        /\ thread[t].reply = "Error adding transaction"
        /\ Get(thread[t].result, "amount") = JStr(S_500)
        /\ Len(thread[t].added) = 1
        /\ ledger = thread[t].added

\* a screenshot whose app name is a number has been answered with "Error
\* processing screenshot", and its document is in the collection
C25_WitnessPhoto ==
    \E t \in PhotoThreads :
        /\ Done(t)
        /\ thread[t].reply = "Error processing screenshot"
        /\ Len(thread[t].added) = 1
        /\ ledger = thread[t].added

\* the documents handle_photo inserted
C26_Inserted == {thread[t].added[1] : t \in {p \in PhotoThreads : thread[p].added # <<>>}}

C26_IsPositiveInteger(x) == x.k = "int" /\ x.n > 0

C26_IsKind(x) == x \in {JStr(S_income), JStr(S_expense)}

C26_IsNonEmptyText(x) == x.k = "str" /\ x.s # <<>>

\* C26, as the specification states it: every document handle_photo inserts has
\* an amount that is an integer greater than 0, a type that is income or
\* expense, and a description that is not empty.
C26_InsertedWellFormed ==
    \A doc \in C26_Inserted :
        /\ C26_IsPositiveInteger(doc.amount)
        /\ C26_IsKind(doc.type)
        /\ C26_IsNonEmptyText(doc.description)

\* what does hold of every document handle_photo inserts: the integer part of
\* its amount is greater than 0, its type is income or expense, and its
\* description is truthy
C26_InsertedPassedValidator ==
    \A doc \in C26_Inserted :
        /\ PyInt(doc.amount).exc = ""
        /\ PyInt(doc.amount).n > 0
        /\ C26_IsKind(doc.type)
        /\ Truthy(doc.description)

\* a screenshot read as the amount 12.7 has been inserted with that amount
C26_Witness ==
    \E t \in PhotoThreads :
        /\ Done(t)
        /\ Len(thread[t].added) = 1
        /\ thread[t].added[1].amount = JFloat(127)
        /\ thread[t].added[1].type = JStr(S_expense)
        /\ ledger = thread[t].added
        /\ thread[t].reply = "Transaction Added from Screenshot"

\* the validator accepts the record parsed from the screenshot of thread t
C27_ValidatorAccepts(t) ==
    /\ thread[t].calls # <<>>
    /\ validate_upi_transaction(C18_Extracted(t)).exc = ""
    /\ validate_upi_transaction(C18_Extracted(t)).v.is_valid

\* C27, as the specification states it: every parsed screenshot record that
\* validate_upi_transaction accepts is inserted, an amount such as "500"
\* included; the amount test before the validator drops none of them.
C27_AcceptedIsInserted ==
    \A t \in PhotoThreads :
        Done(t) /\ C27_ValidatorAccepts(t) =>
            /\ Len(thread[t].added) = 1
            /\ ledger = thread[t].added

\* what does hold of the amount test: a record it answers with "Could not find
\* transaction details" is one the validator rejects too
C27_NotFoundIsRejected ==
    \A t \in PhotoThreads :
        Done(t) /\ thread[t].reply = "Could not find transaction details" =>
            /\ thread[t].validation = NotRun
            /\ ~C27_ValidatorAccepts(t)

\* a screenshot read as the amount "500", which the validator accepts, has been
\* answered with "Error processing screenshot" before the validator ran, and
\* nothing was inserted
C27_Witness ==
    \E t \in PhotoThreads :
        /\ Done(t)
        /\ Get(C18_Extracted(t), "amount") = JStr(S_500)
        /\ C27_ValidatorAccepts(t)
        /\ thread[t].validation = NotRun
        /\ thread[t].reply = "Error processing screenshot"
        /\ thread[t].added = <<>>
        /\ ledger = <<>>

-----------------------------------------------------------------------------
(* db.py: get_balance *)

\* the values $sum adds up: integers and doubles; any other amount is skipped
IsNumeric(x) == x.k \in {"int", "float"}

\* a numeric value in tenths
InTenths(x) == IF x.k = "int" THEN 10 * x.n ELSE x.n

\* the sum of two numbers: an integer when both are, a double otherwise
Plus(x, y) ==
    IF x.k = "int" /\ y.k = "int" THEN JInt(x.n + y.n) ELSE JFloat(InTenths(x) + InTenths(y))

\* the difference of two numbers
Minus(x, y) ==
    IF x.k = "int" /\ y.k = "int" THEN JInt(x.n - y.n) ELSE JFloat(InTenths(x) - InTenths(y))

\* {"$match": {"user_id": user_id}}, {"$group": {"_id": "$type", "total":
\* {"$sum": "$amount"}}}: the total of the group `type`, and 0 when there is no
\* such group, as get_balance starts from income, expense = 0, 0
RECURSIVE GroupTotal(_, _, _)
GroupTotal(docs, user_id, type) ==
    IF docs = <<>> THEN JInt(0)
    ELSE LET doc == Head(docs)
             rest == GroupTotal(Tail(docs), user_id, type)
         IN  IF doc.user_id = user_id /\ doc.type = JStr(type) /\ IsNumeric(doc.amount)
             THEN Plus(doc.amount, rest)
             ELSE rest

\* a get_balance whose pipeline has no $match stage
get_balance_of_everyone(docs, user_id) ==
    [income |-> Plus(GroupTotal(docs, 1, S_income), GroupTotal(docs, 2, S_income)),
     expense |-> Plus(GroupTotal(docs, 1, S_expense), GroupTotal(docs, 2, S_expense))]

\* get_balance: income, expense
get_balance(docs, user_id) ==
    [income |-> GroupTotal(docs, user_id, S_income),
     expense |-> GroupTotal(docs, user_id, S_expense)]

-----------------------------------------------------------------------------
(* The ledger under appends, delete_all and balance questions *)

\* the records appended: of each kind and of a kind that is neither, with an
\* integer amount, a double and an amount in quotes
BalanceRecords ==
    {Obj([amount |-> a, type |-> t, description |-> JStr(S_groceries)]) :
        a \in {JInt(50), JFloat(127), JStr(S_500)},
        t \in {JStr(S_income), JStr(S_expense), JStr(S_transfer)}}

InitBalance ==
    /\ ledger = <<>>
    /\ balance = Unset
    /\ found = Unset
    /\ ocr_text = <<>>
    /\ upi_amount = Unset
    /\ thread = <<>>
    /\ event = NoEvent
    /\ transaction_data = Unset
    /\ user_description = <<>>
    /\ validation = NotRun
    /\ enhanced = NotRun
    /\ result = Unset
    /\ query_args = None
    /\ reply = ""
    /\ added = <<>>
    /\ today = 0
    /\ query_data = Unset
    /\ resolved = Unset

\* add_transaction(user_id, data)
AddTransaction(user_id) ==
    /\ Len(ledger) < MaxLedger
    /\ \E data \in BalanceRecords :
        ledger' = insert_one(ledger, add_transaction(user_id, data))
    /\ UNCHANGED <<event, transaction_data, user_description, validation, enhanced,
                   result, query_args, reply, added, today, query_data, resolved, thread,
                   ocr_text, upi_amount, found, balance>>

\* handle_balance_query: income, expense = get_balance(user_id); net = income - expense
Balance(user_id) ==
    /\ LET totals == get_balance(ledger, user_id)
       IN  balance' = [user_id |-> user_id,
                       income |-> totals.income,
                       expense |-> totals.expense,
                       net |-> Minus(totals.income, totals.expense)]
    /\ UNCHANGED <<ledger, event, transaction_data, user_description, validation, enhanced,
                   result, query_args, reply, added, today, query_data, resolved, thread,
                   ocr_text, upi_amount, found>>

NextBalance == \E user_id \in Users : AddTransaction(user_id) \/ DeleteAll(user_id) \/ Balance(user_id)

SpecBalance == InitBalance /\ [][NextBalance]_vars

\* the positions of the documents of user u whose type is `type`
C28_Records(u, type) ==
    {i \in 1..Len(ledger) : ledger[i].user_id = u /\ ledger[i].type = JStr(type)}

\* the sum, in tenths, of the amounts at the positions `at`
RECURSIVE C28_SumAt(_)
C28_SumAt(at) ==
    IF at = {} THEN 0
    ELSE LET i == CHOOSE j \in at : TRUE
         IN  InTenths(ledger[i].amount) + C28_SumAt(at \ {i})

\* the amounts of the documents at the positions `at` are numbers
C28_AllNumeric(at) == \A i \in at : IsNumeric(ledger[i].amount)

\* the balance shown is that of the collection as it is: the totals of the
\* user's income and expense documents, 0 for a kind without documents, and net
\* is income minus expense
C28_SumsOfOwnRecords ==
    LET u == balance.user_id
        incomes == C28_Records(u, S_income)
        expenses == C28_Records(u, S_expense)
    IN  /\ C28_AllNumeric(incomes) => InTenths(balance.income) = C28_SumAt(incomes)
        /\ C28_AllNumeric(expenses) => InTenths(balance.expense) = C28_SumAt(expenses)
        /\ incomes = {} => balance.income = JInt(0)
        /\ expenses = {} => balance.expense = JInt(0)
        /\ InTenths(balance.net) = InTenths(balance.income) - InTenths(balance.expense)

\* C28: after any sequence of add_transaction and delete_all_transactions by
\* any users, each balance question of user u is answered with the sum of the
\* amounts of u's income documents and the sum of the amounts of u's expense
\* documents, 0 for a kind without documents, whatever documents other users
\* hold and whatever documents of another type there are; net is income minus
\* expense.
C28_BalanceIsSums == [][balance' # balance => C28_SumsOfOwnRecords']_vars

\* documents whose amount is no number are left out of the totals
C28_SkipsNonNumbers ==
    [][balance' # balance =>
        \A type \in {S_income, S_expense} :
            LET at == {i \in C28_Records(balance'.user_id, type) : IsNumeric(ledger[i].amount)}
                total == IF type = S_income THEN balance'.income ELSE balance'.expense
            IN  InTenths(total) = C28_SumAt(at)]_vars

\* user 1 holds an income of 50 and user 2 an expense of 12.7, and user 1 has
\* been shown income 50, expense 0, net 50
C28_Witness ==
    /\ Len(ledger) = 2
    /\ \E i, j \in 1..2 :
        /\ ledger[i].user_id = 1 /\ ledger[i].type = JStr(S_income) /\ ledger[i].amount = JInt(50)
        /\ ledger[j].user_id = 2 /\ ledger[j].type = JStr(S_expense) /\ ledger[j].amount = JFloat(127)
    /\ balance # Unset
    /\ balance.user_id = 1
    /\ balance.income = JInt(50)
    /\ balance.expense = JInt(0)
    /\ balance.net = JInt(50)

\* user 1 holds an expense of 12.7 and a transfer of 50, and has been shown
\* income 0, expense 12.7, net -12.7
C28_WitnessOtherType ==
    /\ Len(ledger) = 2
    /\ \E i, j \in 1..2 :
        /\ ledger[i].user_id = 1 /\ ledger[i].type = JStr(S_expense) /\ ledger[i].amount = JFloat(127)
        /\ ledger[j].user_id = 1 /\ ledger[j].type = JStr(S_transfer) /\ ledger[j].amount = JInt(50)
    /\ balance # Unset
    /\ balance.user_id = 1
    /\ balance.income = JInt(0)
    /\ balance.expense = JFloat(127)
    /\ balance.net = JFloat(-127)

====
